---------------------------- MODULE Spec2Model ----------------------------
(***************************************************************************)
(* SafeDocs (src/main.py): the rule-based document analysis engine         *)
(* (AIAnalyzer.analyze_document), the upload route that guards it          *)
(* (POST /api/analyze), the template chat responder (POST /api/chat) and   *)
(* the two module-level stores documents_storage and chat_history.         *)
(*                                                                         *)
(* A Python str is modelled as the tuple of its Unicode code points, so    *)
(* "штраф" is <<1096, 1090, 1088, 1072, 1092>>.  Every string constant of  *)
(* the source appears below as such a tuple, with the source text in the   *)
(* comment above it.  str.lower(), str.strip(), str.find(), `in`, slicing  *)
(* and f-string formatting are defined on these tuples as Python defines   *)
(* them on every code point: the case mappings are the tables of the       *)
(* interpreter's Unicode database, and str.lower() gives the capital sigma *)
(* the form its position asks for.                                         *)
(*                                                                         *)
(* Not modelled: the wall-clock fields processed_at and timestamp, the     *)
(* PDF/OCR extraction (FileProcessor) and the content-type / file-size     *)
(* checks that precede extraction; an upload enters the model as the text  *)
(* that extraction produced.  The 500 response of the upload route         *)
(* (main.py:323-324) is left out: the engine raises on no string.          *)
(***************************************************************************)
EXTENDS Integers, Sequences, FiniteSets, TLC

VARIABLES
    documents_storage,  \* main.py:64  document_id -> DocumentAnalysis
    chat_history,       \* main.py:65  document_id -> list of exchanges
    requests,           \* the chat requests: each one's position in chat_with_document
    running,            \* the coroutine the event loop is executing, or NoTask
    response,           \* the last response of POST /api/analyze, with the text it answers
    engine_input,       \* document_id -> the text AIAnalyzer.analyze_document was called with
    stage,              \* harness: "input", then "analysed", then "answered"
    text,               \* harness: the argument of AIAnalyzer.analyze_document
    analysis,           \* harness: its result
    question,           \* harness: the question put to the chat responder
    answer              \* harness: the responder's answer

vars == <<documents_storage, chat_history, requests, running, response,
          engine_input,
          stage, text, analysis, question, answer>>

(***************************************************************************)
(* Program constants (literals of src/main.py).                            *)
(***************************************************************************)
\* main.py:148  context_start = max(0, start_pos - 100)
CONTEXT_BEFORE == 100
\* main.py:149  context_end = min(len(text), start_pos + 200)
CONTEXT_AFTER == 200
\* main.py:243  text[:2000] + "..." if len(text) > 2000 else text
EXCERPT_CAP == 2000
\* main.py:307  if len(text.strip()) < 50
MIN_TEXT_LENGTH == 50
\* main.py:214  elif risk_count > 3
MANY_RISKS == 3

(***************************************************************************)
(* String constants of src/main.py, as tuples of code points.              *)
(***************************************************************************)
\* main.py:135-141: the subtype table, in declaration order (a dict keeps insertion order)
risk_patterns ==
    <<
      \* "штрафные санкции": "штраф", "пеня", "неустойка", "санкции"
      [type |-> <<1096, 1090, 1088, 1072, 1092, 1085, 1099, 1077, 32, 1089, 1072, 1085, 1082, 1094, 1080,
                1080>>,
       keywords |-> <<
          <<1096, 1090, 1088, 1072, 1092>>,
          <<1087, 1077, 1085, 1103>>,
          <<1085, 1077, 1091, 1089, 1090, 1086, 1081, 1082, 1072>>,
          <<1089, 1072, 1085, 1082, 1094, 1080, 1080>>
       >>],
      \* "односторонние условия": "односторонн", "в любое время", "по своему усмотрению", "вправе расторгнуть"
      [type |-> <<1086, 1076, 1085, 1086, 1089, 1090, 1086, 1088, 1086, 1085, 1085, 1080, 1077, 32, 1091,
                1089, 1083, 1086, 1074, 1080, 1103>>,
       keywords |-> <<
          <<1086, 1076, 1085, 1086, 1089, 1090, 1086, 1088, 1086, 1085, 1085>>,
          <<1074, 32, 1083, 1102, 1073, 1086, 1077, 32, 1074, 1088, 1077, 1084, 1103>>,
          <<1087, 1086, 32, 1089, 1074, 1086, 1077, 1084, 1091, 32, 1091, 1089, 1084, 1086, 1090,
            1088, 1077, 1085, 1080, 1102>>,
          <<1074, 1087, 1088, 1072, 1074, 1077, 32, 1088, 1072, 1089, 1090, 1086, 1088, 1075, 1085,
            1091, 1090, 1100>>
       >>],
      \* "высокая ответственность": "полная ответственность", "возмещение всех", "солидарная ответственность"
      [type |-> <<1074, 1099, 1089, 1086, 1082, 1072, 1103, 32, 1086, 1090, 1074, 1077, 1090, 1089, 1090,
                1074, 1077, 1085, 1085, 1086, 1089, 1090, 1100>>,
       keywords |-> <<
          <<1087, 1086, 1083, 1085, 1072, 1103, 32, 1086, 1090, 1074, 1077, 1090, 1089, 1090, 1074,
            1077, 1085, 1085, 1086, 1089, 1090, 1100>>,
          <<1074, 1086, 1079, 1084, 1077, 1097, 1077, 1085, 1080, 1077, 32, 1074, 1089, 1077, 1093>>,
          <<1089, 1086, 1083, 1080, 1076, 1072, 1088, 1085, 1072, 1103, 32, 1086, 1090, 1074, 1077,
            1090, 1089, 1090, 1074, 1077, 1085, 1085, 1086, 1089, 1090, 1100>>
       >>],
      \* "неопределенные сроки": "разумный срок", "в кратчайшие сроки", "незамедлительно", "без промедления"
      [type |-> <<1085, 1077, 1086, 1087, 1088, 1077, 1076, 1077, 1083, 1077, 1085, 1085, 1099, 1077, 32,
                1089, 1088, 1086, 1082, 1080>>,
       keywords |-> <<
          <<1088, 1072, 1079, 1091, 1084, 1085, 1099, 1081, 32, 1089, 1088, 1086, 1082>>,
          <<1074, 32, 1082, 1088, 1072, 1090, 1095, 1072, 1081, 1096, 1080, 1077, 32, 1089, 1088,
            1086, 1082, 1080>>,
          <<1085, 1077, 1079, 1072, 1084, 1077, 1076, 1083, 1080, 1090, 1077, 1083, 1100, 1085,
            1086>>,
          <<1073, 1077, 1079, 32, 1087, 1088, 1086, 1084, 1077, 1076, 1083, 1077, 1085, 1080, 1103>>
       >>],
      \* "финансовые риски": "за свой счет", "без возмещения", "безвозмездно", "убытки покупателя"
      [type |-> <<1092, 1080, 1085, 1072, 1085, 1089, 1086, 1074, 1099, 1077, 32, 1088, 1080, 1089, 1082,
                1080>>,
       keywords |-> <<
          <<1079, 1072, 32, 1089, 1074, 1086, 1081, 32, 1089, 1095, 1077, 1090>>,
          <<1073, 1077, 1079, 32, 1074, 1086, 1079, 1084, 1077, 1097, 1077, 1085, 1080, 1103>>,
          <<1073, 1077, 1079, 1074, 1086, 1079, 1084, 1077, 1079, 1076, 1085, 1086>>,
          <<1091, 1073, 1099, 1090, 1082, 1080, 32, 1087, 1086, 1082, 1091, 1087, 1072, 1090, 1077,
            1083, 1103>>
       >>]
    >>

\* main.py:163-168: the subtype table, in declaration order (a dict keeps insertion order)
benefit_patterns ==
    <<
      \* "гарантии": "гарантия", "гарантирует", "обязуется"
      [type |-> <<1075, 1072, 1088, 1072, 1085, 1090, 1080, 1080>>,
       keywords |-> <<
          <<1075, 1072, 1088, 1072, 1085, 1090, 1080, 1103>>,
          <<1075, 1072, 1088, 1072, 1085, 1090, 1080, 1088, 1091, 1077, 1090>>,
          <<1086, 1073, 1103, 1079, 1091, 1077, 1090, 1089, 1103>>
       >>],
      \* "защита интересов": "страхование", "компенсация", "возмещение"
      [type |-> <<1079, 1072, 1097, 1080, 1090, 1072, 32, 1080, 1085, 1090, 1077, 1088, 1077, 1089, 1086,
                1074>>,
       keywords |-> <<
          <<1089, 1090, 1088, 1072, 1093, 1086, 1074, 1072, 1085, 1080, 1077>>,
          <<1082, 1086, 1084, 1087, 1077, 1085, 1089, 1072, 1094, 1080, 1103>>,
          <<1074, 1086, 1079, 1084, 1077, 1097, 1077, 1085, 1080, 1077>>
       >>],
      \* "гибкие условия": "по согласованию", "возможность изменения", "право выбора"
      [type |-> <<1075, 1080, 1073, 1082, 1080, 1077, 32, 1091, 1089, 1083, 1086, 1074, 1080, 1103>>,
       keywords |-> <<
          <<1087, 1086, 32, 1089, 1086, 1075, 1083, 1072, 1089, 1086, 1074, 1072, 1085, 1080, 1102>>,
          <<1074, 1086, 1079, 1084, 1086, 1078, 1085, 1086, 1089, 1090, 1100, 32, 1080, 1079, 1084,
            1077, 1085, 1077, 1085, 1080, 1103>>,
          <<1087, 1088, 1072, 1074, 1086, 32, 1074, 1099, 1073, 1086, 1088, 1072>>
       >>],
      \* "возврат средств": "возврат", "возмещение платежа", "компенсация расходов"
      [type |-> <<1074, 1086, 1079, 1074, 1088, 1072, 1090, 32, 1089, 1088, 1077, 1076, 1089, 1090, 1074>>,
       keywords |-> <<
          <<1074, 1086, 1079, 1074, 1088, 1072, 1090>>,
          <<1074, 1086, 1079, 1084, 1077, 1097, 1077, 1085, 1080, 1077, 32, 1087, 1083, 1072, 1090,
            1077, 1078, 1072>>,
          <<1082, 1086, 1084, 1087, 1077, 1085, 1089, 1072, 1094, 1080, 1103, 32, 1088, 1072, 1089,
            1093, 1086, 1076, 1086, 1074>>
       >>]
    >>

\* main.py:188-192: the phrase list, in declaration order
unclear_patterns ==
    <<
      \* "в установленном порядке"
      <<1074, 32, 1091, 1089, 1090, 1072, 1085, 1086, 1074, 1083, 1077, 1085, 1085, 1086, 1084,
        32, 1087, 1086, 1088, 1103, 1076, 1082, 1077>>,
      \* "соответствующие меры"
      <<1089, 1086, 1086, 1090, 1074, 1077, 1090, 1089, 1090, 1074, 1091, 1102, 1097, 1080, 1077,
        32, 1084, 1077, 1088, 1099>>,
      \* "надлежащим образом"
      <<1085, 1072, 1076, 1083, 1077, 1078, 1072, 1097, 1080, 1084, 32, 1086, 1073, 1088, 1072,
        1079, 1086, 1084>>,
      \* "разумный срок"
      <<1088, 1072, 1079, 1091, 1084, 1085, 1099, 1081, 32, 1089, 1088, 1086, 1082>>,
      \* "существенные нарушения"
      <<1089, 1091, 1097, 1077, 1089, 1090, 1074, 1077, 1085, 1085, 1099, 1077, 32, 1085, 1072,
        1088, 1091, 1096, 1077, 1085, 1080, 1103>>,
      \* "форс-мажорные обстоятельства"
      <<1092, 1086, 1088, 1089, 45, 1084, 1072, 1078, 1086, 1088, 1085, 1099, 1077, 32, 1086,
        1073, 1089, 1090, 1086, 1103, 1090, 1077, 1083, 1100, 1089, 1090, 1074, 1072>>,
      \* "иные обстоятельства"
      <<1080, 1085, 1099, 1077, 32, 1086, 1073, 1089, 1090, 1086, 1103, 1090, 1077, 1083, 1100,
        1089, 1090, 1074, 1072>>,
      \* "по обоюдному согласию"
      <<1087, 1086, 32, 1086, 1073, 1086, 1102, 1076, 1085, 1086, 1084, 1091, 32, 1089, 1086,
        1075, 1083, 1072, 1089, 1080, 1102>>,
      \* "в исключительных случаях"
      <<1074, 32, 1080, 1089, 1082, 1083, 1102, 1095, 1080, 1090, 1077, 1083, 1100, 1085, 1099,
        1093, 32, 1089, 1083, 1091, 1095, 1072, 1103, 1093>>
    >>

\* main.py:156: the fragments that make a risk keyword high-severity
severe_fragments ==
    <<
      \* "штраф"
      <<1096, 1090, 1088, 1072, 1092>>,
      \* "полная ответственность"
      <<1087, 1086, 1083, 1085, 1072, 1103, 32, 1086, 1090, 1074, 1077, 1090, 1089, 1090, 1074,
        1077, 1085, 1085, 1086, 1089, 1090, 1100>>
    >>

\* main.py:156: "высокий"
severity_high ==
    <<1074, 1099, 1089, 1086, 1082, 1080, 1081>>

\* main.py:156: "средний"
severity_medium ==
    <<1089, 1088, 1077, 1076, 1085, 1080, 1081>>

\* main.py:182: "гарантия"
guarantee_fragment ==
    <<1075, 1072, 1088, 1072, 1085, 1090, 1080, 1103>>

\* main.py:182: "высокая"
value_high ==
    <<1074, 1099, 1089, 1086, 1082, 1072, 1103>>

\* main.py:182: "средняя"
value_medium ==
    <<1089, 1088, 1077, 1076, 1085, 1103, 1103>>

\* main.py:157: "Рекомендуется пересмотреть условия, связанные с '"
recommendation_pre ==
    <<1056, 1077, 1082, 1086, 1084, 1077, 1085, 1076, 1091, 1077, 1090, 1089, 1103, 32, 1087,
    1077, 1088, 1077, 1089, 1084, 1086, 1090, 1088, 1077, 1090, 1100, 32, 1091, 1089, 1083,
    1086, 1074, 1080, 1103, 44, 32, 1089, 1074, 1103, 1079, 1072, 1085, 1085, 1099, 1077,
    32, 1089, 32, 39>>

\* main.py:157: "'"
recommendation_post ==
    <<39>>

\* main.py:204: "Фраза '"
explanation_pre ==
    <<1060, 1088, 1072, 1079, 1072, 32, 39>>

\* main.py:204: "' требует уточнения конкретных условий"
explanation_post ==
    <<39, 32, 1090, 1088, 1077, 1073, 1091, 1077, 1090, 32, 1091, 1090, 1086, 1095, 1085, 1077,
    1085, 1080, 1103, 32, 1082, 1086, 1085, 1082, 1088, 1077, 1090, 1085, 1099, 1093, 32,
    1091, 1089, 1083, 1086, 1074, 1080, 1081>>

\* main.py:205: "Рекомендуется запросить детализацию данного пункта"
suggestion_text ==
    <<1056, 1077, 1082, 1086, 1084, 1077, 1085, 1076, 1091, 1077, 1090, 1089, 1103, 32, 1079,
    1072, 1087, 1088, 1086, 1089, 1080, 1090, 1100, 32, 1076, 1077, 1090, 1072, 1083, 1080,
    1079, 1072, 1094, 1080, 1102, 32, 1076, 1072, 1085, 1085, 1086, 1075, 1086, 32, 1087,
    1091, 1085, 1082, 1090, 1072>>

\* main.py:213: "рискован"
rating_risky ==
    <<1088, 1080, 1089, 1082, 1086, 1074, 1072, 1085>>

\* main.py:215, 217: "требует внимания"
rating_attention ==
    <<1090, 1088, 1077, 1073, 1091, 1077, 1090, 32, 1074, 1085, 1080, 1084, 1072, 1085, 1080,
    1103>>

\* main.py:219: "безопасен"
rating_safe ==
    <<1073, 1077, 1079, 1086, 1087, 1072, 1089, 1077, 1085>>

\* main.py:243: "..."
truncation_marker ==
    <<46, 46, 46>>

\* main.py:222-238: "\nДокумент '"
summary_part0 ==
    <<10, 1044, 1086, 1082, 1091, 1084, 1077, 1085, 1090, 32, 39>>

\* main.py:222-238: "' проанализирован:\n\n🔍 ОСНОВНЫЕ НАХОДКИ:\n• Рисков найдено: "
summary_part1 ==
    <<39, 32, 1087, 1088, 1086, 1072, 1085, 1072, 1083, 1080, 1079, 1080, 1088, 1086, 1074,
    1072, 1085, 58, 10, 10, 128269, 32, 1054, 1057, 1053, 1054, 1042, 1053, 1067, 1045, 32,
    1053, 1040, 1061, 1054, 1044, 1050, 1048, 58, 10, 8226, 32, 1056, 1080, 1089, 1082,
    1086, 1074, 32, 1085, 1072, 1081, 1076, 1077, 1085, 1086, 58, 32>>

\* main.py:222-238: "\n• Выгодных условий: "
summary_part2 ==
    <<10, 8226, 32, 1042, 1099, 1075, 1086, 1076, 1085, 1099, 1093, 32, 1091, 1089, 1083, 1086,
    1074, 1080, 1081, 58, 32>>

\* main.py:222-238: "\n• Неясных формулировок: "
summary_part3 ==
    <<10, 8226, 32, 1053, 1077, 1103, 1089, 1085, 1099, 1093, 32, 1092, 1086, 1088, 1084, 1091,
    1083, 1080, 1088, 1086, 1074, 1086, 1082, 58, 32>>

\* main.py:222-238: "\n\n⚖️ ОБЩАЯ ОЦЕНКА: "
summary_part4 ==
    <<10, 10, 9878, 65039, 32, 1054, 1041, 1065, 1040, 1071, 32, 1054, 1062, 1045, 1053, 1050,
    1040, 58, 32>>

\* main.py:222-238: "\n\n💡 РЕКОМЕНДАЦИИ:\n"
summary_part5 ==
    <<10, 10, 128161, 32, 1056, 1045, 1050, 1054, 1052, 1045, 1053, 1044, 1040, 1062, 1048,
    1048, 58, 10>>

\* main.py:222-238: "\n"
summary_part6 ==
    <<10>>

\* main.py:222-238: "\n"
summary_part7 ==
    <<10>>

\* main.py:222-238: "\n\n📋 Этот анализ основан на базовых правилах. Для детального изучения рекомендуется консультация с юристом.\n        "
summary_part8 ==
    <<10, 10, 128203, 32, 1069, 1090, 1086, 1090, 32, 1072, 1085, 1072, 1083, 1080, 1079, 32,
    1086, 1089, 1085, 1086, 1074, 1072, 1085, 32, 1085, 1072, 32, 1073, 1072, 1079, 1086,
    1074, 1099, 1093, 32, 1087, 1088, 1072, 1074, 1080, 1083, 1072, 1093, 46, 32, 1044,
    1083, 1103, 32, 1076, 1077, 1090, 1072, 1083, 1100, 1085, 1086, 1075, 1086, 32, 1080,
    1079, 1091, 1095, 1077, 1085, 1080, 1103, 32, 1088, 1077, 1082, 1086, 1084, 1077, 1085,
    1076, 1091, 1077, 1090, 1089, 1103, 32, 1082, 1086, 1085, 1089, 1091, 1083, 1100, 1090,
    1072, 1094, 1080, 1103, 32, 1089, 32, 1102, 1088, 1080, 1089, 1090, 1086, 1084, 46, 10,
    32, 32, 32, 32, 32, 32, 32, 32>>

\* main.py:233: "штраф"
summary_fine_fragment ==
    <<1096, 1090, 1088, 1072, 1092>>

\* main.py:233: "• Обратите особое внимание на штрафные санкции"
summary_rec_fines ==
    <<8226, 32, 1054, 1073, 1088, 1072, 1090, 1080, 1090, 1077, 32, 1086, 1089, 1086, 1073,
    1086, 1077, 32, 1074, 1085, 1080, 1084, 1072, 1085, 1080, 1077, 32, 1085, 1072, 32,
    1096, 1090, 1088, 1072, 1092, 1085, 1099, 1077, 32, 1089, 1072, 1085, 1082, 1094, 1080,
    1080>>

\* main.py:234: "• Уточните неопределенные формулировки"
summary_rec_unclear ==
    <<8226, 32, 1059, 1090, 1086, 1095, 1085, 1080, 1090, 1077, 32, 1085, 1077, 1086, 1087,
    1088, 1077, 1076, 1077, 1083, 1077, 1085, 1085, 1099, 1077, 32, 1092, 1086, 1088, 1084,
    1091, 1083, 1080, 1088, 1086, 1074, 1082, 1080>>

\* main.py:235: "• Используйте найденные гарантии в свою пользу"
summary_rec_benefits ==
    <<8226, 32, 1048, 1089, 1087, 1086, 1083, 1100, 1079, 1091, 1081, 1090, 1077, 32, 1085,
    1072, 1081, 1076, 1077, 1085, 1085, 1099, 1077, 32, 1075, 1072, 1088, 1072, 1085, 1090,
    1080, 1080, 32, 1074, 32, 1089, 1074, 1086, 1102, 32, 1087, 1086, 1083, 1100, 1079,
    1091>>

\* main.py:339: trigger words of the risk family
risk_words ==
    <<
      \* "риск"
      <<1088, 1080, 1089, 1082>>,
      \* "опасн"
      <<1086, 1087, 1072, 1089, 1085>>,
      \* "штраф"
      <<1096, 1090, 1088, 1072, 1092>>
    >>

\* main.py:343: trigger words of the benefit family
benefit_words ==
    <<
      \* "выгод"
      <<1074, 1099, 1075, 1086, 1076>>,
      \* "плюс"
      <<1087, 1083, 1102, 1089>>,
      \* "хорош"
      <<1093, 1086, 1088, 1086, 1096>>
    >>

\* main.py:347: trigger words of the ambiguity family
unclear_words ==
    <<
      \* "непонятн"
      <<1085, 1077, 1087, 1086, 1085, 1103, 1090, 1085>>,
      \* "неясн"
      <<1085, 1077, 1103, 1089, 1085>>,
      \* "что означает"
      <<1095, 1090, 1086, 32, 1086, 1079, 1085, 1072, 1095, 1072, 1077, 1090>>
    >>

\* main.py:351: trigger words of the decision family
decision_words ==
    <<
      \* "подписывать"
      <<1087, 1086, 1076, 1087, 1080, 1089, 1099, 1074, 1072, 1090, 1100>>,
      \* "согласиться"
      <<1089, 1086, 1075, 1083, 1072, 1089, 1080, 1090, 1100, 1089, 1103>>,
      \* "стоит ли"
      <<1089, 1090, 1086, 1080, 1090, 32, 1083, 1080>>
    >>

\* main.py:340, 344, 348: "• "
bullet ==
    <<8226, 32>>

\* main.py:340, 344, 348: ": "
colon ==
    <<58, 32>>

\* main.py:340, 344, 348 (the join separator): "\n"
newline ==
    <<10>>

\* main.py:341: "🚨 В документе найдены следующие риски:\n\n"
risks_header ==
    <<128680, 32, 1042, 32, 1076, 1086, 1082, 1091, 1084, 1077, 1085, 1090, 1077, 32, 1085,
    1072, 1081, 1076, 1077, 1085, 1099, 32, 1089, 1083, 1077, 1076, 1091, 1102, 1097, 1080,
    1077, 32, 1088, 1080, 1089, 1082, 1080, 58, 10, 10>>

\* main.py:341: "В документе не найдено серьезных рисков."
no_risks_answer ==
    <<1042, 32, 1076, 1086, 1082, 1091, 1084, 1077, 1085, 1090, 1077, 32, 1085, 1077, 32, 1085,
    1072, 1081, 1076, 1077, 1085, 1086, 32, 1089, 1077, 1088, 1100, 1077, 1079, 1085, 1099,
    1093, 32, 1088, 1080, 1089, 1082, 1086, 1074, 46>>

\* main.py:345: "✅ Выгодные условия в документе:\n\n"
benefits_header ==
    <<9989, 32, 1042, 1099, 1075, 1086, 1076, 1085, 1099, 1077, 32, 1091, 1089, 1083, 1086,
    1074, 1080, 1103, 32, 1074, 32, 1076, 1086, 1082, 1091, 1084, 1077, 1085, 1090, 1077,
    58, 10, 10>>

\* main.py:345: "Явных выгодных условий не найдено."
no_benefits_answer ==
    <<1071, 1074, 1085, 1099, 1093, 32, 1074, 1099, 1075, 1086, 1076, 1085, 1099, 1093, 32,
    1091, 1089, 1083, 1086, 1074, 1080, 1081, 32, 1085, 1077, 32, 1085, 1072, 1081, 1076,
    1077, 1085, 1086, 46>>

\* main.py:349: "❓ Неясные формулировки:\n\n"
unclear_header ==
    <<10067, 32, 1053, 1077, 1103, 1089, 1085, 1099, 1077, 32, 1092, 1086, 1088, 1084, 1091,
    1083, 1080, 1088, 1086, 1074, 1082, 1080, 58, 10, 10>>

\* main.py:349: "Все формулировки достаточно понятны."
no_unclear_answer ==
    <<1042, 1089, 1077, 32, 1092, 1086, 1088, 1084, 1091, 1083, 1080, 1088, 1086, 1074, 1082,
    1080, 32, 1076, 1086, 1089, 1090, 1072, 1090, 1086, 1095, 1085, 1086, 32, 1087, 1086,
    1085, 1103, 1090, 1085, 1099, 46>>

\* main.py:352-365: "\n🤔 Рекомендация по документу:\n\nОбщая оценка: "
decision_part0 ==
    <<10, 129300, 32, 1056, 1077, 1082, 1086, 1084, 1077, 1085, 1076, 1072, 1094, 1080, 1103,
    32, 1087, 1086, 32, 1076, 1086, 1082, 1091, 1084, 1077, 1085, 1090, 1091, 58, 10, 10,
    1054, 1073, 1097, 1072, 1103, 32, 1086, 1094, 1077, 1085, 1082, 1072, 58, 32>>

\* main.py:352-365: "\n\n"
decision_part1 ==
    <<10, 10>>

\* main.py:352-365: "\n\n💡 Советую:\n1. Проконсультироваться с юристом\n2. Обратить внимание на найденные риски\n3. Уточнить неясные формулировки\n\nПомните: это базовый анализ, окончательное решение за вами!\n        "
decision_part2 ==
    <<10, 10, 128161, 32, 1057, 1086, 1074, 1077, 1090, 1091, 1102, 58, 10, 49, 46, 32, 1055,
    1088, 1086, 1082, 1086, 1085, 1089, 1091, 1083, 1100, 1090, 1080, 1088, 1086, 1074,
    1072, 1090, 1100, 1089, 1103, 32, 1089, 32, 1102, 1088, 1080, 1089, 1090, 1086, 1084,
    10, 50, 46, 32, 1054, 1073, 1088, 1072, 1090, 1080, 1090, 1100, 32, 1074, 1085, 1080,
    1084, 1072, 1085, 1080, 1077, 32, 1085, 1072, 32, 1085, 1072, 1081, 1076, 1077, 1085,
    1085, 1099, 1077, 32, 1088, 1080, 1089, 1082, 1080, 10, 51, 46, 32, 1059, 1090, 1086,
    1095, 1085, 1080, 1090, 1100, 32, 1085, 1077, 1103, 1089, 1085, 1099, 1077, 32, 1092,
    1086, 1088, 1084, 1091, 1083, 1080, 1088, 1086, 1074, 1082, 1080, 10, 10, 1055, 1086,
    1084, 1085, 1080, 1090, 1077, 58, 32, 1101, 1090, 1086, 32, 1073, 1072, 1079, 1086,
    1074, 1099, 1081, 32, 1072, 1085, 1072, 1083, 1080, 1079, 44, 32, 1086, 1082, 1086,
    1085, 1095, 1072, 1090, 1077, 1083, 1100, 1085, 1086, 1077, 32, 1088, 1077, 1096, 1077,
    1085, 1080, 1077, 32, 1079, 1072, 32, 1074, 1072, 1084, 1080, 33, 10, 32, 32, 32, 32,
    32, 32, 32, 32>>

\* main.py:357: "⚠️ Рекомендую внимательно изучить риски перед подписанием."
decision_warning ==
    <<9888, 65039, 32, 1056, 1077, 1082, 1086, 1084, 1077, 1085, 1076, 1091, 1102, 32, 1074,
    1085, 1080, 1084, 1072, 1090, 1077, 1083, 1100, 1085, 1086, 32, 1080, 1079, 1091, 1095,
    1080, 1090, 1100, 32, 1088, 1080, 1089, 1082, 1080, 32, 1087, 1077, 1088, 1077, 1076,
    32, 1087, 1086, 1076, 1087, 1080, 1089, 1072, 1085, 1080, 1077, 1084, 46>>

\* main.py:357: "✅ Документ выглядит относительно безопасным."
decision_safe ==
    <<9989, 32, 1044, 1086, 1082, 1091, 1084, 1077, 1085, 1090, 32, 1074, 1099, 1075, 1083,
    1103, 1076, 1080, 1090, 32, 1086, 1090, 1085, 1086, 1089, 1080, 1090, 1077, 1083, 1100,
    1085, 1086, 32, 1073, 1077, 1079, 1086, 1087, 1072, 1089, 1085, 1099, 1084, 46>>

\* main.py:368-380: "\n💬 Спасибо за вопрос! \n\nЯ проанализировал ваш документ ""
fallback_part0 ==
    <<10, 128172, 32, 1057, 1087, 1072, 1089, 1080, 1073, 1086, 32, 1079, 1072, 32, 1074, 1086,
    1087, 1088, 1086, 1089, 33, 32, 10, 10, 1071, 32, 1087, 1088, 1086, 1072, 1085, 1072,
    1083, 1080, 1079, 1080, 1088, 1086, 1074, 1072, 1083, 32, 1074, 1072, 1096, 32, 1076,
    1086, 1082, 1091, 1084, 1077, 1085, 1090, 32, 34>>

\* main.py:368-380: "" и могу ответить на вопросы о:\n• Рисках в договоре\n• Выгодных условиях  \n• Неясных формулировках\n• Рекомендациях по подписанию\n\nПопробуйте спросить: "Какие есть риски?" или "Стоит ли подписывать?"\n\n🔬 В разработке: полноценный AI-помощник с детальным анализом каждого пункта.\n        "
fallback_part1 ==
    <<34, 32, 1080, 32, 1084, 1086, 1075, 1091, 32, 1086, 1090, 1074, 1077, 1090, 1080, 1090,
    1100, 32, 1085, 1072, 32, 1074, 1086, 1087, 1088, 1086, 1089, 1099, 32, 1086, 58, 10,
    8226, 32, 1056, 1080, 1089, 1082, 1072, 1093, 32, 1074, 32, 1076, 1086, 1075, 1086,
    1074, 1086, 1088, 1077, 10, 8226, 32, 1042, 1099, 1075, 1086, 1076, 1085, 1099, 1093,
    32, 1091, 1089, 1083, 1086, 1074, 1080, 1103, 1093, 32, 32, 10, 8226, 32, 1053, 1077,
    1103, 1089, 1085, 1099, 1093, 32, 1092, 1086, 1088, 1084, 1091, 1083, 1080, 1088, 1086,
    1074, 1082, 1072, 1093, 10, 8226, 32, 1056, 1077, 1082, 1086, 1084, 1077, 1085, 1076,
    1072, 1094, 1080, 1103, 1093, 32, 1087, 1086, 32, 1087, 1086, 1076, 1087, 1080, 1089,
    1072, 1085, 1080, 1102, 10, 10, 1055, 1086, 1087, 1088, 1086, 1073, 1091, 1081, 1090,
    1077, 32, 1089, 1087, 1088, 1086, 1089, 1080, 1090, 1100, 58, 32, 34, 1050, 1072, 1082,
    1080, 1077, 32, 1077, 1089, 1090, 1100, 32, 1088, 1080, 1089, 1082, 1080, 63, 34, 32,
    1080, 1083, 1080, 32, 34, 1057, 1090, 1086, 1080, 1090, 32, 1083, 1080, 32, 1087, 1086,
    1076, 1087, 1080, 1089, 1099, 1074, 1072, 1090, 1100, 63, 34, 10, 10, 128300, 32, 1042,
    32, 1088, 1072, 1079, 1088, 1072, 1073, 1086, 1090, 1082, 1077, 58, 32, 1087, 1086,
    1083, 1085, 1086, 1094, 1077, 1085, 1085, 1099, 1081, 32, 65, 73, 45, 1087, 1086, 1084,
    1086, 1097, 1085, 1080, 1082, 32, 1089, 32, 1076, 1077, 1090, 1072, 1083, 1100, 1085,
    1099, 1084, 32, 1072, 1085, 1072, 1083, 1080, 1079, 1086, 1084, 32, 1082, 1072, 1078,
    1076, 1086, 1075, 1086, 32, 1087, 1091, 1085, 1082, 1090, 1072, 46, 10, 32, 32, 32, 32,
    32, 32, 32, 32>>

(***************************************************************************)
(* str.lower() (main.py:131, 336) and str.upper() (main.py:230): the       *)
(* tables of the Unicode database the interpreter carries.                 *)
(***************************************************************************)
\* <<first, last, step, delta>>: the code points first, first + step, ..., last
\* lower-case to themselves plus delta.  <<65, 90, 1, 32>> is A-Z,
\* <<1040, 1071, 1, 32>> is the Russian capitals, <<1024, 1039, 1, 80>> the
\* capitals before them; the Kazakh capitals are in the step-2 runs from 1120.
lower_runs ==
    <<
      <<65, 90, 1, 32>>, <<192, 214, 1, 32>>, <<216, 222, 1, 32>>, <<256, 302, 2, 1>>,
      <<306, 310, 2, 1>>, <<313, 327, 2, 1>>, <<330, 374, 2, 1>>, <<376, 376, 1, -121>>,
      <<377, 381, 2, 1>>, <<385, 385, 1, 210>>, <<386, 388, 2, 1>>, <<390, 390, 1, 206>>,
      <<391, 391, 1, 1>>, <<393, 394, 1, 205>>, <<395, 395, 1, 1>>, <<398, 398, 1, 79>>,
      <<399, 399, 1, 202>>, <<400, 400, 1, 203>>, <<401, 401, 1, 1>>, <<403, 403, 1, 205>>,
      <<404, 404, 1, 207>>, <<406, 406, 1, 211>>, <<407, 407, 1, 209>>, <<408, 408, 1, 1>>,
      <<412, 412, 1, 211>>, <<413, 413, 1, 213>>, <<415, 415, 1, 214>>, <<416, 420, 2, 1>>,
      <<422, 422, 1, 218>>, <<423, 423, 1, 1>>, <<425, 425, 1, 218>>, <<428, 428, 1, 1>>,
      <<430, 430, 1, 218>>, <<431, 431, 1, 1>>, <<433, 434, 1, 217>>, <<435, 437, 2, 1>>,
      <<439, 439, 1, 219>>, <<440, 440, 1, 1>>, <<444, 444, 1, 1>>, <<452, 452, 1, 2>>,
      <<453, 453, 1, 1>>, <<455, 455, 1, 2>>, <<456, 456, 1, 1>>, <<458, 458, 1, 2>>,
      <<459, 475, 2, 1>>, <<478, 494, 2, 1>>, <<497, 497, 1, 2>>, <<498, 500, 2, 1>>,
      <<502, 502, 1, -97>>, <<503, 503, 1, -56>>, <<504, 542, 2, 1>>, <<544, 544, 1, -130>>,
      <<546, 562, 2, 1>>, <<570, 570, 1, 10795>>, <<571, 571, 1, 1>>, <<573, 573, 1, -163>>,
      <<574, 574, 1, 10792>>, <<577, 577, 1, 1>>, <<579, 579, 1, -195>>, <<580, 580, 1, 69>>,
      <<581, 581, 1, 71>>, <<582, 590, 2, 1>>, <<880, 882, 2, 1>>, <<886, 886, 1, 1>>,
      <<895, 895, 1, 116>>, <<902, 902, 1, 38>>, <<904, 906, 1, 37>>, <<908, 908, 1, 64>>,
      <<910, 911, 1, 63>>, <<913, 929, 1, 32>>, <<931, 939, 1, 32>>, <<975, 975, 1, 8>>,
      <<984, 1006, 2, 1>>, <<1012, 1012, 1, -60>>, <<1015, 1015, 1, 1>>, <<1017, 1017, 1, -7>>,
      <<1018, 1018, 1, 1>>, <<1021, 1023, 1, -130>>, <<1024, 1039, 1, 80>>,
      <<1040, 1071, 1, 32>>, <<1120, 1152, 2, 1>>, <<1162, 1214, 2, 1>>, <<1216, 1216, 1, 15>>,
      <<1217, 1229, 2, 1>>, <<1232, 1326, 2, 1>>, <<1329, 1366, 1, 48>>,
      <<4256, 4293, 1, 7264>>, <<4295, 4295, 1, 7264>>, <<4301, 4301, 1, 7264>>,
      <<5024, 5103, 1, 38864>>, <<5104, 5109, 1, 8>>, <<7312, 7354, 1, -3008>>,
      <<7357, 7359, 1, -3008>>, <<7680, 7828, 2, 1>>, <<7838, 7838, 1, -7615>>,
      <<7840, 7934, 2, 1>>, <<7944, 7951, 1, -8>>, <<7960, 7965, 1, -8>>,
      <<7976, 7983, 1, -8>>, <<7992, 7999, 1, -8>>, <<8008, 8013, 1, -8>>,
      <<8025, 8031, 2, -8>>, <<8040, 8047, 1, -8>>, <<8072, 8079, 1, -8>>,
      <<8088, 8095, 1, -8>>, <<8104, 8111, 1, -8>>, <<8120, 8121, 1, -8>>,
      <<8122, 8123, 1, -74>>, <<8124, 8124, 1, -9>>, <<8136, 8139, 1, -86>>,
      <<8140, 8140, 1, -9>>, <<8152, 8153, 1, -8>>, <<8154, 8155, 1, -100>>,
      <<8168, 8169, 1, -8>>, <<8170, 8171, 1, -112>>, <<8172, 8172, 1, -7>>,
      <<8184, 8185, 1, -128>>, <<8186, 8187, 1, -126>>, <<8188, 8188, 1, -9>>,
      <<8486, 8486, 1, -7517>>, <<8490, 8490, 1, -8383>>, <<8491, 8491, 1, -8262>>,
      <<8498, 8498, 1, 28>>, <<8544, 8559, 1, 16>>, <<8579, 8579, 1, 1>>,
      <<9398, 9423, 1, 26>>, <<11264, 11311, 1, 48>>, <<11360, 11360, 1, 1>>,
      <<11362, 11362, 1, -10743>>, <<11363, 11363, 1, -3814>>, <<11364, 11364, 1, -10727>>,
      <<11367, 11371, 2, 1>>, <<11373, 11373, 1, -10780>>, <<11374, 11374, 1, -10749>>,
      <<11375, 11375, 1, -10783>>, <<11376, 11376, 1, -10782>>, <<11378, 11378, 1, 1>>,
      <<11381, 11381, 1, 1>>, <<11390, 11391, 1, -10815>>, <<11392, 11490, 2, 1>>,
      <<11499, 11501, 2, 1>>, <<11506, 11506, 1, 1>>, <<42560, 42604, 2, 1>>,
      <<42624, 42650, 2, 1>>, <<42786, 42798, 2, 1>>, <<42802, 42862, 2, 1>>,
      <<42873, 42875, 2, 1>>, <<42877, 42877, 1, -35332>>, <<42878, 42886, 2, 1>>,
      <<42891, 42891, 1, 1>>, <<42893, 42893, 1, -42280>>, <<42896, 42898, 2, 1>>,
      <<42902, 42920, 2, 1>>, <<42922, 42922, 1, -42308>>, <<42923, 42923, 1, -42319>>,
      <<42924, 42924, 1, -42315>>, <<42925, 42925, 1, -42305>>, <<42926, 42926, 1, -42308>>,
      <<42928, 42928, 1, -42258>>, <<42929, 42929, 1, -42282>>, <<42930, 42930, 1, -42261>>,
      <<42931, 42931, 1, 928>>, <<42932, 42946, 2, 1>>, <<42948, 42948, 1, -48>>,
      <<42949, 42949, 1, -42307>>, <<42950, 42950, 1, -35384>>, <<42951, 42953, 2, 1>>,
      <<42960, 42960, 1, 1>>, <<42966, 42968, 2, 1>>, <<42997, 42997, 1, 1>>,
      <<65313, 65338, 1, 32>>, <<66560, 66599, 1, 40>>, <<66736, 66771, 1, 40>>,
      <<66928, 66938, 1, 39>>, <<66940, 66954, 1, 39>>, <<66956, 66962, 1, 39>>,
      <<66964, 66965, 1, 39>>, <<68736, 68786, 1, 64>>, <<71840, 71871, 1, 32>>,
      <<93760, 93791, 1, 32>>, <<125184, 125217, 1, 34>>
    >>

\* The same for str.upper(): <<97, 122, 1, -32>> is a-z.
upper_runs ==
    <<
      <<97, 122, 1, -32>>, <<181, 181, 1, 743>>, <<224, 246, 1, -32>>, <<248, 254, 1, -32>>,
      <<255, 255, 1, 121>>, <<257, 303, 2, -1>>, <<305, 305, 1, -232>>, <<307, 311, 2, -1>>,
      <<314, 328, 2, -1>>, <<331, 375, 2, -1>>, <<378, 382, 2, -1>>, <<383, 383, 1, -300>>,
      <<384, 384, 1, 195>>, <<387, 389, 2, -1>>, <<392, 392, 1, -1>>, <<396, 396, 1, -1>>,
      <<402, 402, 1, -1>>, <<405, 405, 1, 97>>, <<409, 409, 1, -1>>, <<410, 410, 1, 163>>,
      <<414, 414, 1, 130>>, <<417, 421, 2, -1>>, <<424, 424, 1, -1>>, <<429, 429, 1, -1>>,
      <<432, 432, 1, -1>>, <<436, 438, 2, -1>>, <<441, 441, 1, -1>>, <<445, 445, 1, -1>>,
      <<447, 447, 1, 56>>, <<453, 453, 1, -1>>, <<454, 454, 1, -2>>, <<456, 456, 1, -1>>,
      <<457, 457, 1, -2>>, <<459, 459, 1, -1>>, <<460, 460, 1, -2>>, <<462, 476, 2, -1>>,
      <<477, 477, 1, -79>>, <<479, 495, 2, -1>>, <<498, 498, 1, -1>>, <<499, 499, 1, -2>>,
      <<501, 501, 1, -1>>, <<505, 543, 2, -1>>, <<547, 563, 2, -1>>, <<572, 572, 1, -1>>,
      <<575, 576, 1, 10815>>, <<578, 578, 1, -1>>, <<583, 591, 2, -1>>, <<592, 592, 1, 10783>>,
      <<593, 593, 1, 10780>>, <<594, 594, 1, 10782>>, <<595, 595, 1, -210>>,
      <<596, 596, 1, -206>>, <<598, 599, 1, -205>>, <<601, 601, 1, -202>>,
      <<603, 603, 1, -203>>, <<604, 604, 1, 42319>>, <<608, 608, 1, -205>>,
      <<609, 609, 1, 42315>>, <<611, 611, 1, -207>>, <<613, 613, 1, 42280>>,
      <<614, 614, 1, 42308>>, <<616, 616, 1, -209>>, <<617, 617, 1, -211>>,
      <<618, 618, 1, 42308>>, <<619, 619, 1, 10743>>, <<620, 620, 1, 42305>>,
      <<623, 623, 1, -211>>, <<625, 625, 1, 10749>>, <<626, 626, 1, -213>>,
      <<629, 629, 1, -214>>, <<637, 637, 1, 10727>>, <<640, 640, 1, -218>>,
      <<642, 642, 1, 42307>>, <<643, 643, 1, -218>>, <<647, 647, 1, 42282>>,
      <<648, 648, 1, -218>>, <<649, 649, 1, -69>>, <<650, 651, 1, -217>>, <<652, 652, 1, -71>>,
      <<658, 658, 1, -219>>, <<669, 669, 1, 42261>>, <<670, 670, 1, 42258>>,
      <<837, 837, 1, 84>>, <<881, 883, 2, -1>>, <<887, 887, 1, -1>>, <<891, 893, 1, 130>>,
      <<940, 940, 1, -38>>, <<941, 943, 1, -37>>, <<945, 961, 1, -32>>, <<962, 962, 1, -31>>,
      <<963, 971, 1, -32>>, <<972, 972, 1, -64>>, <<973, 974, 1, -63>>, <<976, 976, 1, -62>>,
      <<977, 977, 1, -57>>, <<981, 981, 1, -47>>, <<982, 982, 1, -54>>, <<983, 983, 1, -8>>,
      <<985, 1007, 2, -1>>, <<1008, 1008, 1, -86>>, <<1009, 1009, 1, -80>>,
      <<1010, 1010, 1, 7>>, <<1011, 1011, 1, -116>>, <<1013, 1013, 1, -96>>,
      <<1016, 1016, 1, -1>>, <<1019, 1019, 1, -1>>, <<1072, 1103, 1, -32>>,
      <<1104, 1119, 1, -80>>, <<1121, 1153, 2, -1>>, <<1163, 1215, 2, -1>>,
      <<1218, 1230, 2, -1>>, <<1231, 1231, 1, -15>>, <<1233, 1327, 2, -1>>,
      <<1377, 1414, 1, -48>>, <<4304, 4346, 1, 3008>>, <<4349, 4351, 1, 3008>>,
      <<5112, 5117, 1, -8>>, <<7296, 7296, 1, -6254>>, <<7297, 7297, 1, -6253>>,
      <<7298, 7298, 1, -6244>>, <<7299, 7300, 1, -6242>>, <<7301, 7301, 1, -6243>>,
      <<7302, 7302, 1, -6236>>, <<7303, 7303, 1, -6181>>, <<7304, 7304, 1, 35266>>,
      <<7545, 7545, 1, 35332>>, <<7549, 7549, 1, 3814>>, <<7566, 7566, 1, 35384>>,
      <<7681, 7829, 2, -1>>, <<7835, 7835, 1, -59>>, <<7841, 7935, 2, -1>>,
      <<7936, 7943, 1, 8>>, <<7952, 7957, 1, 8>>, <<7968, 7975, 1, 8>>, <<7984, 7991, 1, 8>>,
      <<8000, 8005, 1, 8>>, <<8017, 8023, 2, 8>>, <<8032, 8039, 1, 8>>, <<8048, 8049, 1, 74>>,
      <<8050, 8053, 1, 86>>, <<8054, 8055, 1, 100>>, <<8056, 8057, 1, 128>>,
      <<8058, 8059, 1, 112>>, <<8060, 8061, 1, 126>>, <<8112, 8113, 1, 8>>,
      <<8126, 8126, 1, -7205>>, <<8144, 8145, 1, 8>>, <<8160, 8161, 1, 8>>,
      <<8165, 8165, 1, 7>>, <<8526, 8526, 1, -28>>, <<8560, 8575, 1, -16>>,
      <<8580, 8580, 1, -1>>, <<9424, 9449, 1, -26>>, <<11312, 11359, 1, -48>>,
      <<11361, 11361, 1, -1>>, <<11365, 11365, 1, -10795>>, <<11366, 11366, 1, -10792>>,
      <<11368, 11372, 2, -1>>, <<11379, 11379, 1, -1>>, <<11382, 11382, 1, -1>>,
      <<11393, 11491, 2, -1>>, <<11500, 11502, 2, -1>>, <<11507, 11507, 1, -1>>,
      <<11520, 11557, 1, -7264>>, <<11559, 11559, 1, -7264>>, <<11565, 11565, 1, -7264>>,
      <<42561, 42605, 2, -1>>, <<42625, 42651, 2, -1>>, <<42787, 42799, 2, -1>>,
      <<42803, 42863, 2, -1>>, <<42874, 42876, 2, -1>>, <<42879, 42887, 2, -1>>,
      <<42892, 42892, 1, -1>>, <<42897, 42899, 2, -1>>, <<42900, 42900, 1, 48>>,
      <<42903, 42921, 2, -1>>, <<42933, 42947, 2, -1>>, <<42952, 42954, 2, -1>>,
      <<42961, 42961, 1, -1>>, <<42967, 42969, 2, -1>>, <<42998, 42998, 1, -1>>,
      <<43859, 43859, 1, -928>>, <<43888, 43967, 1, -38864>>, <<65345, 65370, 1, -32>>,
      <<66600, 66639, 1, -40>>, <<66776, 66811, 1, -40>>, <<66967, 66977, 1, -39>>,
      <<66979, 66993, 1, -39>>, <<66995, 67001, 1, -39>>, <<67003, 67004, 1, -39>>,
      <<68800, 68850, 1, -64>>, <<71872, 71903, 1, -32>>, <<93792, 93823, 1, -32>>,
      <<125218, 125251, 1, -34>>
    >>

\* <<code point, upper-case form>>: the code points whose upper-case form has
\* more than one code point (U+00DF, sharp s, becomes "SS").
upper_expansions ==
    <<
      <<223, <<83, 83>>>>, <<329, <<700, 78>>>>, <<496, <<74, 780>>>>,
      <<912, <<921, 776, 769>>>>, <<944, <<933, 776, 769>>>>, <<1415, <<1333, 1362>>>>,
      <<7830, <<72, 817>>>>, <<7831, <<84, 776>>>>, <<7832, <<87, 778>>>>,
      <<7833, <<89, 778>>>>, <<7834, <<65, 702>>>>, <<8016, <<933, 787>>>>,
      <<8018, <<933, 787, 768>>>>, <<8020, <<933, 787, 769>>>>, <<8022, <<933, 787, 834>>>>,
      <<8064, <<7944, 921>>>>, <<8065, <<7945, 921>>>>, <<8066, <<7946, 921>>>>,
      <<8067, <<7947, 921>>>>, <<8068, <<7948, 921>>>>, <<8069, <<7949, 921>>>>,
      <<8070, <<7950, 921>>>>, <<8071, <<7951, 921>>>>, <<8072, <<7944, 921>>>>,
      <<8073, <<7945, 921>>>>, <<8074, <<7946, 921>>>>, <<8075, <<7947, 921>>>>,
      <<8076, <<7948, 921>>>>, <<8077, <<7949, 921>>>>, <<8078, <<7950, 921>>>>,
      <<8079, <<7951, 921>>>>, <<8080, <<7976, 921>>>>, <<8081, <<7977, 921>>>>,
      <<8082, <<7978, 921>>>>, <<8083, <<7979, 921>>>>, <<8084, <<7980, 921>>>>,
      <<8085, <<7981, 921>>>>, <<8086, <<7982, 921>>>>, <<8087, <<7983, 921>>>>,
      <<8088, <<7976, 921>>>>, <<8089, <<7977, 921>>>>, <<8090, <<7978, 921>>>>,
      <<8091, <<7979, 921>>>>, <<8092, <<7980, 921>>>>, <<8093, <<7981, 921>>>>,
      <<8094, <<7982, 921>>>>, <<8095, <<7983, 921>>>>, <<8096, <<8040, 921>>>>,
      <<8097, <<8041, 921>>>>, <<8098, <<8042, 921>>>>, <<8099, <<8043, 921>>>>,
      <<8100, <<8044, 921>>>>, <<8101, <<8045, 921>>>>, <<8102, <<8046, 921>>>>,
      <<8103, <<8047, 921>>>>, <<8104, <<8040, 921>>>>, <<8105, <<8041, 921>>>>,
      <<8106, <<8042, 921>>>>, <<8107, <<8043, 921>>>>, <<8108, <<8044, 921>>>>,
      <<8109, <<8045, 921>>>>, <<8110, <<8046, 921>>>>, <<8111, <<8047, 921>>>>,
      <<8114, <<8122, 921>>>>, <<8115, <<913, 921>>>>, <<8116, <<902, 921>>>>,
      <<8118, <<913, 834>>>>, <<8119, <<913, 834, 921>>>>, <<8124, <<913, 921>>>>,
      <<8130, <<8138, 921>>>>, <<8131, <<919, 921>>>>, <<8132, <<905, 921>>>>,
      <<8134, <<919, 834>>>>, <<8135, <<919, 834, 921>>>>, <<8140, <<919, 921>>>>,
      <<8146, <<921, 776, 768>>>>, <<8147, <<921, 776, 769>>>>, <<8150, <<921, 834>>>>,
      <<8151, <<921, 776, 834>>>>, <<8162, <<933, 776, 768>>>>, <<8163, <<933, 776, 769>>>>,
      <<8164, <<929, 787>>>>, <<8166, <<933, 834>>>>, <<8167, <<933, 776, 834>>>>,
      <<8178, <<8186, 921>>>>, <<8179, <<937, 921>>>>, <<8180, <<911, 921>>>>,
      <<8182, <<937, 834>>>>, <<8183, <<937, 834, 921>>>>, <<8188, <<937, 921>>>>,
      <<64256, <<70, 70>>>>, <<64257, <<70, 73>>>>, <<64258, <<70, 76>>>>,
      <<64259, <<70, 70, 73>>>>, <<64260, <<70, 70, 76>>>>, <<64261, <<83, 84>>>>,
      <<64262, <<83, 84>>>>, <<64275, <<1348, 1350>>>>, <<64276, <<1348, 1333>>>>,
      <<64277, <<1348, 1339>>>>, <<64278, <<1358, 1350>>>>, <<64279, <<1348, 1341>>>>
    >>

\* <<first, last>>: the cased code points that are not case-ignorable (they
\* decide how a capital sigma next to them lower-cases).
cased_ranges ==
    <<
      <<65, 90>>, <<97, 122>>, <<170, 170>>, <<181, 181>>, <<186, 186>>, <<192, 214>>,
      <<216, 246>>, <<248, 442>>, <<444, 447>>, <<452, 659>>, <<661, 687>>, <<880, 883>>,
      <<886, 887>>, <<891, 893>>, <<895, 895>>, <<902, 902>>, <<904, 906>>, <<908, 908>>,
      <<910, 929>>, <<931, 1013>>, <<1015, 1153>>, <<1162, 1327>>, <<1329, 1366>>,
      <<1376, 1416>>, <<4256, 4293>>, <<4295, 4295>>, <<4301, 4301>>, <<4304, 4346>>,
      <<4349, 4351>>, <<5024, 5109>>, <<5112, 5117>>, <<7296, 7304>>, <<7312, 7354>>,
      <<7357, 7359>>, <<7424, 7467>>, <<7531, 7543>>, <<7545, 7578>>, <<7680, 7957>>,
      <<7960, 7965>>, <<7968, 8005>>, <<8008, 8013>>, <<8016, 8023>>, <<8025, 8025>>,
      <<8027, 8027>>, <<8029, 8029>>, <<8031, 8061>>, <<8064, 8116>>, <<8118, 8124>>,
      <<8126, 8126>>, <<8130, 8132>>, <<8134, 8140>>, <<8144, 8147>>, <<8150, 8155>>,
      <<8160, 8172>>, <<8178, 8180>>, <<8182, 8188>>, <<8450, 8450>>, <<8455, 8455>>,
      <<8458, 8467>>, <<8469, 8469>>, <<8473, 8477>>, <<8484, 8484>>, <<8486, 8486>>,
      <<8488, 8488>>, <<8490, 8493>>, <<8495, 8500>>, <<8505, 8505>>, <<8508, 8511>>,
      <<8517, 8521>>, <<8526, 8526>>, <<8544, 8575>>, <<8579, 8580>>, <<9398, 9449>>,
      <<11264, 11387>>, <<11390, 11492>>, <<11499, 11502>>, <<11506, 11507>>, <<11520, 11557>>,
      <<11559, 11559>>, <<11565, 11565>>, <<42560, 42605>>, <<42624, 42651>>, <<42786, 42863>>,
      <<42865, 42887>>, <<42891, 42894>>, <<42896, 42954>>, <<42960, 42961>>, <<42963, 42963>>,
      <<42965, 42969>>, <<42997, 42998>>, <<43002, 43002>>, <<43824, 43866>>, <<43872, 43880>>,
      <<43888, 43967>>, <<64256, 64262>>, <<64275, 64279>>, <<65313, 65338>>, <<65345, 65370>>,
      <<66560, 66639>>, <<66736, 66771>>, <<66776, 66811>>, <<66928, 66938>>, <<66940, 66954>>,
      <<66956, 66962>>, <<66964, 66965>>, <<66967, 66977>>, <<66979, 66993>>, <<66995, 67001>>,
      <<67003, 67004>>, <<68736, 68786>>, <<68800, 68850>>, <<71840, 71903>>, <<93760, 93823>>,
      <<119808, 119892>>, <<119894, 119964>>, <<119966, 119967>>, <<119970, 119970>>,
      <<119973, 119974>>, <<119977, 119980>>, <<119982, 119993>>, <<119995, 119995>>,
      <<119997, 120003>>, <<120005, 120069>>, <<120071, 120074>>, <<120077, 120084>>,
      <<120086, 120092>>, <<120094, 120121>>, <<120123, 120126>>, <<120128, 120132>>,
      <<120134, 120134>>, <<120138, 120144>>, <<120146, 120485>>, <<120488, 120512>>,
      <<120514, 120538>>, <<120540, 120570>>, <<120572, 120596>>, <<120598, 120628>>,
      <<120630, 120654>>, <<120656, 120686>>, <<120688, 120712>>, <<120714, 120744>>,
      <<120746, 120770>>, <<120772, 120779>>, <<122624, 122633>>, <<122635, 122654>>,
      <<125184, 125251>>, <<127280, 127305>>, <<127312, 127337>>, <<127344, 127369>>
    >>

\* <<first, last>>: the case-ignorable code points (skipped when looking for
\* the cased letter next to a capital sigma).
case_ignorable_ranges ==
    <<
      <<39, 39>>, <<46, 46>>, <<58, 58>>, <<94, 94>>, <<96, 96>>, <<168, 168>>, <<173, 173>>,
      <<175, 175>>, <<180, 180>>, <<183, 184>>, <<688, 879>>, <<884, 885>>, <<890, 890>>,
      <<900, 901>>, <<903, 903>>, <<1155, 1161>>, <<1369, 1369>>, <<1375, 1375>>,
      <<1425, 1469>>, <<1471, 1471>>, <<1473, 1474>>, <<1476, 1477>>, <<1479, 1479>>,
      <<1524, 1524>>, <<1536, 1541>>, <<1552, 1562>>, <<1564, 1564>>, <<1600, 1600>>,
      <<1611, 1631>>, <<1648, 1648>>, <<1750, 1757>>, <<1759, 1768>>, <<1770, 1773>>,
      <<1807, 1807>>, <<1809, 1809>>, <<1840, 1866>>, <<1958, 1968>>, <<2027, 2037>>,
      <<2042, 2042>>, <<2045, 2045>>, <<2070, 2093>>, <<2137, 2139>>, <<2184, 2184>>,
      <<2192, 2193>>, <<2200, 2207>>, <<2249, 2306>>, <<2362, 2362>>, <<2364, 2364>>,
      <<2369, 2376>>, <<2381, 2381>>, <<2385, 2391>>, <<2402, 2403>>, <<2417, 2417>>,
      <<2433, 2433>>, <<2492, 2492>>, <<2497, 2500>>, <<2509, 2509>>, <<2530, 2531>>,
      <<2558, 2558>>, <<2561, 2562>>, <<2620, 2620>>, <<2625, 2626>>, <<2631, 2632>>,
      <<2635, 2637>>, <<2641, 2641>>, <<2672, 2673>>, <<2677, 2677>>, <<2689, 2690>>,
      <<2748, 2748>>, <<2753, 2757>>, <<2759, 2760>>, <<2765, 2765>>, <<2786, 2787>>,
      <<2810, 2815>>, <<2817, 2817>>, <<2876, 2876>>, <<2879, 2879>>, <<2881, 2884>>,
      <<2893, 2893>>, <<2901, 2902>>, <<2914, 2915>>, <<2946, 2946>>, <<3008, 3008>>,
      <<3021, 3021>>, <<3072, 3072>>, <<3076, 3076>>, <<3132, 3132>>, <<3134, 3136>>,
      <<3142, 3144>>, <<3146, 3149>>, <<3157, 3158>>, <<3170, 3171>>, <<3201, 3201>>,
      <<3260, 3260>>, <<3263, 3263>>, <<3270, 3270>>, <<3276, 3277>>, <<3298, 3299>>,
      <<3328, 3329>>, <<3387, 3388>>, <<3393, 3396>>, <<3405, 3405>>, <<3426, 3427>>,
      <<3457, 3457>>, <<3530, 3530>>, <<3538, 3540>>, <<3542, 3542>>, <<3633, 3633>>,
      <<3636, 3642>>, <<3654, 3662>>, <<3761, 3761>>, <<3764, 3772>>, <<3782, 3782>>,
      <<3784, 3789>>, <<3864, 3865>>, <<3893, 3893>>, <<3895, 3895>>, <<3897, 3897>>,
      <<3953, 3966>>, <<3968, 3972>>, <<3974, 3975>>, <<3981, 3991>>, <<3993, 4028>>,
      <<4038, 4038>>, <<4141, 4144>>, <<4146, 4151>>, <<4153, 4154>>, <<4157, 4158>>,
      <<4184, 4185>>, <<4190, 4192>>, <<4209, 4212>>, <<4226, 4226>>, <<4229, 4230>>,
      <<4237, 4237>>, <<4253, 4253>>, <<4348, 4348>>, <<4957, 4959>>, <<5906, 5908>>,
      <<5938, 5939>>, <<5970, 5971>>, <<6002, 6003>>, <<6068, 6069>>, <<6071, 6077>>,
      <<6086, 6086>>, <<6089, 6099>>, <<6103, 6103>>, <<6109, 6109>>, <<6155, 6159>>,
      <<6211, 6211>>, <<6277, 6278>>, <<6313, 6313>>, <<6432, 6434>>, <<6439, 6440>>,
      <<6450, 6450>>, <<6457, 6459>>, <<6679, 6680>>, <<6683, 6683>>, <<6742, 6742>>,
      <<6744, 6750>>, <<6752, 6752>>, <<6754, 6754>>, <<6757, 6764>>, <<6771, 6780>>,
      <<6783, 6783>>, <<6823, 6823>>, <<6832, 6862>>, <<6912, 6915>>, <<6964, 6964>>,
      <<6966, 6970>>, <<6972, 6972>>, <<6978, 6978>>, <<7019, 7027>>, <<7040, 7041>>,
      <<7074, 7077>>, <<7080, 7081>>, <<7083, 7085>>, <<7142, 7142>>, <<7144, 7145>>,
      <<7149, 7149>>, <<7151, 7153>>, <<7212, 7219>>, <<7222, 7223>>, <<7288, 7293>>,
      <<7376, 7378>>, <<7380, 7392>>, <<7394, 7400>>, <<7405, 7405>>, <<7412, 7412>>,
      <<7416, 7417>>, <<7468, 7530>>, <<7544, 7544>>, <<7579, 7679>>, <<8125, 8125>>,
      <<8127, 8129>>, <<8141, 8143>>, <<8157, 8159>>, <<8173, 8175>>, <<8189, 8190>>,
      <<8203, 8207>>, <<8216, 8217>>, <<8228, 8228>>, <<8231, 8231>>, <<8234, 8238>>,
      <<8288, 8292>>, <<8294, 8303>>, <<8305, 8305>>, <<8319, 8319>>, <<8336, 8348>>,
      <<8400, 8432>>, <<11388, 11389>>, <<11503, 11505>>, <<11631, 11631>>, <<11647, 11647>>,
      <<11744, 11775>>, <<11823, 11823>>, <<12293, 12293>>, <<12330, 12333>>, <<12337, 12341>>,
      <<12347, 12347>>, <<12441, 12446>>, <<12540, 12542>>, <<40981, 40981>>, <<42232, 42237>>,
      <<42508, 42508>>, <<42607, 42610>>, <<42612, 42621>>, <<42623, 42623>>, <<42652, 42655>>,
      <<42736, 42737>>, <<42752, 42785>>, <<42864, 42864>>, <<42888, 42890>>, <<42994, 42996>>,
      <<43000, 43001>>, <<43010, 43010>>, <<43014, 43014>>, <<43019, 43019>>, <<43045, 43046>>,
      <<43052, 43052>>, <<43204, 43205>>, <<43232, 43249>>, <<43263, 43263>>, <<43302, 43309>>,
      <<43335, 43345>>, <<43392, 43394>>, <<43443, 43443>>, <<43446, 43449>>, <<43452, 43453>>,
      <<43471, 43471>>, <<43493, 43494>>, <<43561, 43566>>, <<43569, 43570>>, <<43573, 43574>>,
      <<43587, 43587>>, <<43596, 43596>>, <<43632, 43632>>, <<43644, 43644>>, <<43696, 43696>>,
      <<43698, 43700>>, <<43703, 43704>>, <<43710, 43711>>, <<43713, 43713>>, <<43741, 43741>>,
      <<43756, 43757>>, <<43763, 43764>>, <<43766, 43766>>, <<43867, 43871>>, <<43881, 43883>>,
      <<44005, 44005>>, <<44008, 44008>>, <<44013, 44013>>, <<64286, 64286>>, <<64434, 64450>>,
      <<65024, 65039>>, <<65043, 65043>>, <<65056, 65071>>, <<65106, 65106>>, <<65109, 65109>>,
      <<65279, 65279>>, <<65287, 65287>>, <<65294, 65294>>, <<65306, 65306>>, <<65342, 65342>>,
      <<65344, 65344>>, <<65392, 65392>>, <<65438, 65439>>, <<65507, 65507>>, <<65529, 65531>>,
      <<66045, 66045>>, <<66272, 66272>>, <<66422, 66426>>, <<67456, 67461>>, <<67463, 67504>>,
      <<67506, 67514>>, <<68097, 68099>>, <<68101, 68102>>, <<68108, 68111>>, <<68152, 68154>>,
      <<68159, 68159>>, <<68325, 68326>>, <<68900, 68903>>, <<69291, 69292>>, <<69446, 69456>>,
      <<69506, 69509>>, <<69633, 69633>>, <<69688, 69702>>, <<69744, 69744>>, <<69747, 69748>>,
      <<69759, 69761>>, <<69811, 69814>>, <<69817, 69818>>, <<69821, 69821>>, <<69826, 69826>>,
      <<69837, 69837>>, <<69888, 69890>>, <<69927, 69931>>, <<69933, 69940>>, <<70003, 70003>>,
      <<70016, 70017>>, <<70070, 70078>>, <<70089, 70092>>, <<70095, 70095>>, <<70191, 70193>>,
      <<70196, 70196>>, <<70198, 70199>>, <<70206, 70206>>, <<70367, 70367>>, <<70371, 70378>>,
      <<70400, 70401>>, <<70459, 70460>>, <<70464, 70464>>, <<70502, 70508>>, <<70512, 70516>>,
      <<70712, 70719>>, <<70722, 70724>>, <<70726, 70726>>, <<70750, 70750>>, <<70835, 70840>>,
      <<70842, 70842>>, <<70847, 70848>>, <<70850, 70851>>, <<71090, 71093>>, <<71100, 71101>>,
      <<71103, 71104>>, <<71132, 71133>>, <<71219, 71226>>, <<71229, 71229>>, <<71231, 71232>>,
      <<71339, 71339>>, <<71341, 71341>>, <<71344, 71349>>, <<71351, 71351>>, <<71453, 71455>>,
      <<71458, 71461>>, <<71463, 71467>>, <<71727, 71735>>, <<71737, 71738>>, <<71995, 71996>>,
      <<71998, 71998>>, <<72003, 72003>>, <<72148, 72151>>, <<72154, 72155>>, <<72160, 72160>>,
      <<72193, 72202>>, <<72243, 72248>>, <<72251, 72254>>, <<72263, 72263>>, <<72273, 72278>>,
      <<72281, 72283>>, <<72330, 72342>>, <<72344, 72345>>, <<72752, 72758>>, <<72760, 72765>>,
      <<72767, 72767>>, <<72850, 72871>>, <<72874, 72880>>, <<72882, 72883>>, <<72885, 72886>>,
      <<73009, 73014>>, <<73018, 73018>>, <<73020, 73021>>, <<73023, 73029>>, <<73031, 73031>>,
      <<73104, 73105>>, <<73109, 73109>>, <<73111, 73111>>, <<73459, 73460>>, <<78896, 78904>>,
      <<92912, 92916>>, <<92976, 92982>>, <<92992, 92995>>, <<94031, 94031>>, <<94095, 94111>>,
      <<94176, 94177>>, <<94179, 94180>>, <<110576, 110579>>, <<110581, 110587>>,
      <<110589, 110590>>, <<113821, 113822>>, <<113824, 113827>>, <<118528, 118573>>,
      <<118576, 118598>>, <<119143, 119145>>, <<119155, 119170>>, <<119173, 119179>>,
      <<119210, 119213>>, <<119362, 119364>>, <<121344, 121398>>, <<121403, 121452>>,
      <<121461, 121461>>, <<121476, 121476>>, <<121499, 121503>>, <<121505, 121519>>,
      <<122880, 122886>>, <<122888, 122904>>, <<122907, 122913>>, <<122915, 122916>>,
      <<122918, 122922>>, <<123184, 123197>>, <<123566, 123566>>, <<123628, 123631>>,
      <<125136, 125142>>, <<125252, 125259>>, <<127995, 127999>>, <<917505, 917505>>,
      <<917536, 917631>>, <<917760, 917999>>
    >>

(***************************************************************************)
(* Python's str operations, on tuples of code points.                      *)
(***************************************************************************)
Min(a, b) == IF a < b THEN a ELSE b
Max(a, b) == IF a > b THEN a ELSE b

\* The code points a table of runs lists.
run_points(runs) ==
    UNION {{runs[r][1] + runs[r][3] * k :
                k \in 0..((runs[r][2] - runs[r][1]) \div runs[r][3])} :
           r \in 1..Len(runs)}

\* The delta of the run that lists c.
run_delta(runs, c) ==
    LET r == CHOOSE r \in 1..Len(runs) :
                 /\ runs[r][1] <= c
                 /\ c <= runs[r][2]
                 /\ (c - runs[r][1]) % runs[r][3] = 0
    IN  runs[r][4]

\* c lies in one of the ranges.
in_ranges(ranges, c) ==
    \E r \in 1..Len(ranges) : ranges[r][1] <= c /\ c <= ranges[r][2]

lower_points == run_points(lower_runs)
upper_points == run_points(upper_runs)
upper_expanded == {upper_expansions[r][1] : r \in 1..Len(upper_expansions)}

\* str.lower() of a one-character string.  U+0130 (I with dot above) is the
\* one code point whose lower-case form has two code points: "i" + U+0307.
\* A capital sigma on its own becomes the small sigma.
lower_char(c) ==
    IF c = 304 THEN <<105, 775>>
    ELSE IF c \in lower_points THEN <<c + run_delta(lower_runs, c)>>
    ELSE <<c>>

\* The capital sigma at position i of s is a final one: the nearest character
\* before it that is not case-ignorable is cased, and the nearest one after
\* it, when there is one, is not.
final_sigma(s, i) ==
    /\ \E j \in 1..(i - 1) :
          /\ in_ranges(cased_ranges, s[j])
          /\ \A k \in (j + 1)..(i - 1) : in_ranges(case_ignorable_ranges, s[k])
    /\ ~\E j \in (i + 1)..Len(s) :
          /\ in_ranges(cased_ranges, s[j])
          /\ \A k \in (i + 1)..(j - 1) : in_ranges(case_ignorable_ranges, s[k])

\* The lower-case form of the character at position i of s: that of the
\* character alone, but for the capital sigma (U+03A3), whose form depends on
\* its neighbours.
lower_at(s, i) ==
    IF s[i] = 931 THEN (IF final_sigma(s, i) THEN <<962>> ELSE <<963>>)
    ELSE lower_char(s[i])

\* The lower-case forms of the characters at positions a..b of s, concatenated
\* (computed by halves, which keeps the evaluation shallow on long texts).
RECURSIVE lower_range(_, _, _)
lower_range(s, a, b) ==
    IF a > b THEN <<>>
    ELSE IF a = b THEN lower_at(s, a)
    ELSE LET h == (a + b) \div 2
         IN  lower_range(s, a, h) \o lower_range(s, h + 1, b)

\* str.lower()
lower(s) == lower_range(s, 1, Len(s))

\* str.upper() of a one-character string.
upper_char(c) ==
    IF c \in upper_expanded
    THEN upper_expansions[CHOOSE r \in 1..Len(upper_expansions) :
                              upper_expansions[r][1] = c][2]
    ELSE IF c \in upper_points THEN <<c + run_delta(upper_runs, c)>>
    ELSE <<c>>

\* str.upper(): the concatenation of the characters' upper-case forms.
RECURSIVE upper(_)
upper(s) ==
    IF Len(s) = 0 THEN <<>>
    ELSE upper_char(s[1]) \o upper(Tail(s))

\* str.isspace() of one character: what str.strip() removes.
isspace(c) ==
    c \in (9..13) \cup (28..32) \cup {133, 160, 5760} \cup (8192..8202)
          \cup {8232, 8233, 8239, 8287, 12288}

\* str.strip(): without the leading and trailing whitespace.
strip(s) ==
    LET n == Len(s)
        first == CHOOSE i \in 1..(n + 1) :
                    /\ i = n + 1 \/ ~isspace(s[i])
                    /\ \A j \in 1..(i - 1) : isspace(s[j])
        last == CHOOSE i \in 0..n :
                    /\ i = 0 \/ ~isspace(s[i])
                    /\ \A j \in (i + 1)..n : isspace(s[j])
    IN  IF first > n THEN <<>> ELSE SubSeq(s, first, last)

\* sub occurs in s at the 0-based offset i.
occurs_at(sub, s, i) ==
    /\ i >= 0
    /\ i + Len(sub) <= Len(s)
    /\ \A k \in 1..Len(sub) : s[i + k] = sub[k]

\* `sub in s`
contains(sub, s) == \E i \in 0..(Len(s) - Len(sub)) : occurs_at(sub, s, i)

\* s.find(sub): the 0-based offset of the first occurrence, or -1.
find(s, sub) ==
    IF ~contains(sub, s) THEN -1
    ELSE CHOOSE i \in 0..(Len(s) - Len(sub)) :
            /\ occurs_at(sub, s, i)
            /\ \A j \in 0..(i - 1) : ~occurs_at(sub, s, j)

\* s[a:b] for 0 <= a and 0 <= b (the only slices the source takes).
slice(s, a, b) == SubSeq(s, a + 1, Min(b, Len(s)))

\* str(n) for n >= 0: the decimal digits.
RECURSIVE str_of_int(_)
str_of_int(n) ==
    IF n < 10 THEN <<48 + n>> ELSE Append(str_of_int(n \div 10), 48 + (n % 10))

\* sep.join(items)
RECURSIVE join(_, _)
join(sep, items) ==
    IF Len(items) = 0 THEN <<>>
    ELSE IF Len(items) = 1 THEN items[1]
    ELSE join(sep, SubSeq(items, 1, Len(items) - 1)) \o sep \o items[Len(items)]

\* any(x in s for x in fragments)
any_in(fragments, s) == \E i \in 1..Len(fragments) : contains(fragments[i], s)

(***************************************************************************)
(* AIAnalyzer.analyze_document (main.py:127-250).                          *)
(***************************************************************************)
\* main.py:147-150 (and 173-176, 196-199): the window around the first
\* occurrence of the keyword.  The offset is found in the lower-cased copy
\* and applied to the original text.
context_of(txt, text_lower, keyword) ==
    LET start_pos == find(text_lower, keyword)
        context_start == Max(0, start_pos - CONTEXT_BEFORE)
        context_end == Min(Len(txt), start_pos + CONTEXT_AFTER)
    IN  strip(slice(txt, context_start, context_end))

\* the keyword that occurs earliest in the text instead of the first declared
earliest_keyword(keywords, text_lower) ==
    IF \E k \in 1..Len(keywords) : contains(keywords[k], text_lower)
    THEN CHOOSE k \in 1..Len(keywords) :
            /\ contains(keywords[k], text_lower)
            /\ \A j \in 1..Len(keywords) :
                  contains(keywords[j], text_lower) /\ j # k
                  => \/ find(text_lower, keywords[k]) < find(text_lower, keywords[j])
                     \/ /\ find(text_lower, keywords[k]) = find(text_lower, keywords[j])
                        /\ k < j
    ELSE 0

\* main.py:144-145, 159 (and 171-172, 184): the index of the first keyword of
\* the list, in declared order, that occurs in the lower-cased text; 0 when
\* none does.  The loop breaks at the first hit.
first_keyword(keywords, text_lower) ==
    IF \E k \in 1..Len(keywords) : contains(keywords[k], text_lower)
    THEN CHOOSE k \in 1..Len(keywords) :
            /\ contains(keywords[k], text_lower)
            /\ \A j \in 1..(k - 1) : ~contains(keywords[j], text_lower)
    ELSE 0

\* severity from the first fragment only
severity_of_first_fragment(keyword) ==
    IF contains(severe_fragments[1], keyword) THEN severity_high ELSE severity_medium

\* main.py:156
severity_of(keyword) ==
    IF any_in(severe_fragments, keyword) THEN severity_high ELSE severity_medium

\* main.py:152-158
risk_entry(risk_type, keyword, txt, text_lower) ==
    [type |-> risk_type,
     keyword |-> keyword,
     context |-> context_of(txt, text_lower, keyword),
     severity |-> severity_of(keyword),
     recommendation |-> recommendation_pre \o keyword \o recommendation_post]

\* main.py:143-159: the risks found in the first n subtypes of the table.
RECURSIVE find_risks(_, _, _)
find_risks(txt, text_lower, n) ==
    IF n = 0 THEN <<>>
    ELSE LET earlier == find_risks(txt, text_lower, n - 1)
             row == risk_patterns[n]
             k == first_keyword(row.keywords, text_lower)
         IN  IF k = 0 THEN earlier
             ELSE Append(earlier, risk_entry(row.type, row.keywords[k], txt, text_lower))

\* main.py:182
value_of(keyword) ==
    IF contains(guarantee_fragment, keyword) THEN value_high ELSE value_medium

\* main.py:178-183
benefit_entry(benefit_type, keyword, txt, text_lower) ==
    [type |-> benefit_type,
     keyword |-> keyword,
     context |-> context_of(txt, text_lower, keyword),
     value |-> value_of(keyword)]

\* main.py:170-184: the benefits found in the first n subtypes of the table.
RECURSIVE find_benefits(_, _, _)
find_benefits(txt, text_lower, n) ==
    IF n = 0 THEN <<>>
    ELSE LET earlier == find_benefits(txt, text_lower, n - 1)
             row == benefit_patterns[n]
             k == first_keyword(row.keywords, text_lower)
         IN  IF k = 0 THEN earlier
             ELSE Append(earlier, benefit_entry(row.type, row.keywords[k], txt, text_lower))

\* main.py:201-206
unclear_entry(pattern, txt, text_lower) ==
    [phrase |-> pattern,
     context |-> context_of(txt, text_lower, pattern),
     explanation |-> explanation_pre \o pattern \o explanation_post,
     suggestion |-> suggestion_text]

\* main.py:194-206: the unclear terms among the first n phrases (no break:
\* every phrase that occurs is recorded).
RECURSIVE find_unclear_terms(_, _, _)
find_unclear_terms(txt, text_lower, n) ==
    IF n = 0 THEN <<>>
    ELSE LET earlier == find_unclear_terms(txt, text_lower, n - 1)
             pattern == unclear_patterns[n]
         IN  IF contains(pattern, text_lower)
             THEN Append(earlier, unclear_entry(pattern, txt, text_lower))
             ELSE earlier

\* the "more than 3 risks" branch given a rating of its own
rate_many_is_risky(risks) ==
    LET risk_count == Len(risks)
        severe_risks == Cardinality({i \in 1..Len(risks) : risks[i].severity = severity_high})
    IN  IF severe_risks > 0 THEN rating_risky
        ELSE IF risk_count > MANY_RISKS THEN rating_risky
        ELSE IF risk_count > 0 THEN rating_attention
        ELSE rating_safe

\* main.py:209-219
rate(risks) ==
    LET risk_count == Len(risks)
        severe_risks == Cardinality({i \in 1..Len(risks) : risks[i].severity = severity_high})
    IN  IF severe_risks > 0 THEN rating_risky
        ELSE IF risk_count > MANY_RISKS THEN rating_attention
        ELSE IF risk_count > 0 THEN rating_attention
        ELSE rating_safe

\* main.py:222-238
summarize(filename, risks, benefits, unclear_terms, overall_rating) ==
    strip(summary_part0 \o filename
          \o summary_part1 \o str_of_int(Len(risks))
          \o summary_part2 \o str_of_int(Len(benefits))
          \o summary_part3 \o str_of_int(Len(unclear_terms))
          \o summary_part4 \o upper(overall_rating)
          \o summary_part5
          \o (IF \E i \in 1..Len(risks) : contains(summary_fine_fragment, risks[i].keyword)
              THEN summary_rec_fines ELSE <<>>)
          \o summary_part6
          \o (IF Len(unclear_terms) > 0 THEN summary_rec_unclear ELSE <<>>)
          \o summary_part7
          \o (IF Len(benefits) > 0 THEN summary_rec_benefits ELSE <<>>)
          \o summary_part8)

\* the cut made at the cap itself: >= for >
excerpt_at_cap(txt) ==
    IF Len(txt) >= EXCERPT_CAP THEN slice(txt, 0, EXCERPT_CAP) \o truncation_marker ELSE txt

\* main.py:243
excerpt(txt) ==
    IF Len(txt) > EXCERPT_CAP THEN slice(txt, 0, EXCERPT_CAP) \o truncation_marker ELSE txt

\* main.py:128-250.  document_id stands for str(uuid.uuid4()), main.py:241.
AIAnalyzer_analyze_document(txt, filename, document_id) ==
    LET text_lower == lower(txt)
        risks == find_risks(txt, text_lower, Len(risk_patterns))
        benefits == find_benefits(txt, text_lower, Len(benefit_patterns))
        unclear_terms == find_unclear_terms(txt, text_lower, Len(unclear_patterns))
        overall_rating == rate(risks)
    IN  [document_id |-> document_id,
         filename |-> filename,
         text_content |-> excerpt(txt),
         risks |-> risks,
         benefits |-> benefits,
         unclear_terms |-> unclear_terms,
         overall_rating |-> overall_rating,
         summary |-> summarize(filename, risks, benefits, unclear_terms, overall_rating)]

(***************************************************************************)
(* The chat responder: the answer chat_with_document computes              *)
(* (main.py:335-380).                                                      *)
(***************************************************************************)
\* main.py:340  [f"• {r['type']}: {r['recommendation']}" for r in document.risks]
risk_lines(document) ==
    [i \in 1..Len(document.risks) |->
        bullet \o document.risks[i].type \o colon \o document.risks[i].recommendation]

\* main.py:344  [f"• {b['type']}: {b['keyword']}" for b in document.benefits]
benefit_lines(document) ==
    [i \in 1..Len(document.benefits) |->
        bullet \o document.benefits[i].type \o colon \o document.benefits[i].keyword]

\* main.py:348  [f"• {u['phrase']}: {u['explanation']}" for u in document.unclear_terms]
unclear_lines(document) ==
    [i \in 1..Len(document.unclear_terms) |->
        bullet \o document.unclear_terms[i].phrase \o colon
               \o document.unclear_terms[i].explanation]

\* main.py:339-341
risk_answer(document) ==
    LET risks_text == join(newline, risk_lines(document))
    IN  IF Len(risks_text) > 0 THEN risks_header \o risks_text ELSE no_risks_answer

\* main.py:343-345
benefit_answer(document) ==
    LET benefits_text == join(newline, benefit_lines(document))
    IN  IF Len(benefits_text) > 0 THEN benefits_header \o benefits_text
        ELSE no_benefits_answer

\* main.py:347-349
unclear_answer(document) ==
    LET unclear_text == join(newline, unclear_lines(document))
    IN  IF Len(unclear_text) > 0 THEN unclear_header \o unclear_text
        ELSE no_unclear_answer

\* main.py:351-365
decision_answer(document) ==
    decision_part0 \o document.overall_rating \o decision_part1
        \o (IF document.overall_rating # rating_safe THEN decision_warning
            ELSE decision_safe)
        \o decision_part2

\* main.py:367-380
fallback_answer(document) ==
    fallback_part0 \o document.filename \o fallback_part1

\* the chain with the benefit family tested before the risk family
respond_benefit_first(document, q) ==
    LET question_lower == lower(q)
    IN  IF any_in(benefit_words, question_lower) THEN benefit_answer(document)
        ELSE IF any_in(risk_words, question_lower) THEN risk_answer(document)
        ELSE IF any_in(unclear_words, question_lower) THEN unclear_answer(document)
        ELSE IF any_in(decision_words, question_lower) THEN decision_answer(document)
        ELSE fallback_answer(document)

\* main.py:336-380: the if / elif chain over the lower-cased question.
respond(document, q) ==
    LET question_lower == lower(q)
    IN  IF any_in(risk_words, question_lower) THEN risk_answer(document)
        ELSE IF any_in(benefit_words, question_lower) THEN benefit_answer(document)
        ELSE IF any_in(unclear_words, question_lower) THEN unclear_answer(document)
        ELSE IF any_in(decision_words, question_lower) THEN decision_answer(document)
        ELSE fallback_answer(document)

(***************************************************************************)
(* Bounds and inputs of the model.                                         *)
(***************************************************************************)
\* at most this many phrases in a composed text
MaxPhrases == 2
\* the texts around the context window and the excerpt cap differ from the
\* program constant by at most this much
MaxSlack == 1
\* at most this many parts in a composed question
MaxParts == 2
\* at most this many documents stored
MaxDocs == 2
\* at most this many chat requests
MaxRequests == 2

\* the filename of every upload: "doc.txt"
Filename == <<100, 111, 99, 46, 116, 120, 116>>

\* n characters of filler with no keyword in it: "xxxx xxxx xxxx ..."
Pad(n) == [i \in 1..n |-> IF i % 5 = 0 THEN 32 ELSE 120]

\* n characters, all ch
Repeat(ch, n) == [i \in 1..n |-> ch]

\* the phrases texts are composed of: model input
Phrases ==
    <<
      \* "Штраф за просрочку составляет 10% ежедневно."
      <<1064, 1090, 1088, 1072, 1092, 32, 1079, 1072, 32, 1087, 1088, 1086, 1089, 1088, 1086,
        1095, 1082, 1091, 32, 1089, 1086, 1089, 1090, 1072, 1074, 1083, 1103, 1077, 1090,
        32, 49, 48, 37, 32, 1077, 1078, 1077, 1076, 1085, 1077, 1074, 1085, 1086, 46>>,
      \* "пеня начисляется незамедлительно"
      <<1087, 1077, 1085, 1103, 32, 1085, 1072, 1095, 1080, 1089, 1083, 1103, 1077, 1090, 1089,
        1103, 32, 1085, 1077, 1079, 1072, 1084, 1077, 1076, 1083, 1080, 1090, 1077, 1083,
        1100, 1085, 1086>>,
      \* "Продавец вправе расторгнуть договор за свой счет"
      <<1055, 1088, 1086, 1076, 1072, 1074, 1077, 1094, 32, 1074, 1087, 1088, 1072, 1074, 1077,
        32, 1088, 1072, 1089, 1090, 1086, 1088, 1075, 1085, 1091, 1090, 1100, 32, 1076,
        1086, 1075, 1086, 1074, 1086, 1088, 32, 1079, 1072, 32, 1089, 1074, 1086, 1081, 32,
        1089, 1095, 1077, 1090>>,
      \* "возмещение всех убытков"
      <<1074, 1086, 1079, 1084, 1077, 1097, 1077, 1085, 1080, 1077, 32, 1074, 1089, 1077, 1093,
        32, 1091, 1073, 1099, 1090, 1082, 1086, 1074>>,
      \* "Полная ответственность сторон"
      <<1055, 1086, 1083, 1085, 1072, 1103, 32, 1086, 1090, 1074, 1077, 1090, 1089, 1090, 1074,
        1077, 1085, 1085, 1086, 1089, 1090, 1100, 32, 1089, 1090, 1086, 1088, 1086, 1085>>,
      \* "гарантия и возврат в разумный срок"
      <<1075, 1072, 1088, 1072, 1085, 1090, 1080, 1103, 32, 1080, 32, 1074, 1086, 1079, 1074,
        1088, 1072, 1090, 32, 1074, 32, 1088, 1072, 1079, 1091, 1084, 1085, 1099, 1081, 32,
        1089, 1088, 1086, 1082>>,
      \* "компенсация расходов по согласованию"
      <<1082, 1086, 1084, 1087, 1077, 1085, 1089, 1072, 1094, 1080, 1103, 32, 1088, 1072, 1089,
        1093, 1086, 1076, 1086, 1074, 32, 1087, 1086, 32, 1089, 1086, 1075, 1083, 1072,
        1089, 1086, 1074, 1072, 1085, 1080, 1102>>,
      \* "Договор заключён надлежащим образом..."
      <<1044, 1086, 1075, 1086, 1074, 1086, 1088, 32, 1079, 1072, 1082, 1083, 1102, 1095, 1105,
        1085, 32, 1085, 1072, 1076, 1083, 1077, 1078, 1072, 1097, 1080, 1084, 32, 1086,
        1073, 1088, 1072, 1079, 1086, 1084, 46, 46, 46>>,
      \* "обычный текст без особых условий"
      <<1086, 1073, 1099, 1095, 1085, 1099, 1081, 32, 1090, 1077, 1082, 1089, 1090, 32, 1073,
        1077, 1079, 32, 1086, 1089, 1086, 1073, 1099, 1093, 32, 1091, 1089, 1083, 1086,
        1074, 1080, 1081>>,
      \* "неустойка и санкции"
      <<1085, 1077, 1091, 1089, 1090, 1086, 1081, 1082, 1072, 32, 1080, 32, 1089, 1072, 1085,
        1082, 1094, 1080, 1080>>
    >>

\* the parts questions are composed of: model input
QuestionParts ==
    <<
      \* "Какие РИСКИ?"
      <<1050, 1072, 1082, 1080, 1077, 32, 1056, 1048, 1057, 1050, 1048, 63>>,
      \* "Что выгодно"
      <<1063, 1090, 1086, 32, 1074, 1099, 1075, 1086, 1076, 1085, 1086>>,
      \* "что означает пункт"
      <<1095, 1090, 1086, 32, 1086, 1079, 1085, 1072, 1095, 1072, 1077, 1090, 32, 1087, 1091,
        1085, 1082, 1090>>,
      \* "Стоит ли подписывать"
      <<1057, 1090, 1086, 1080, 1090, 32, 1083, 1080, 32, 1087, 1086, 1076, 1087, 1080, 1089,
        1099, 1074, 1072, 1090, 1100>>,
      \* "Привет"
      <<1055, 1088, 1080, 1074, 1077, 1090>>
    >>

\* " ".join of the phrases a tuple of phrase indexes names
Compose(idx) == join(<<32>>, [i \in 1..Len(idx) |-> Phrases[idx[i]]])

\* the texts of at most MaxPhrases phrases, in every order
PhraseTexts ==
    {Compose(idx) : idx \in UNION {[1..n -> 1..Len(Phrases)] : n \in 0..MaxPhrases}}

\* a phrase with about CONTEXT_BEFORE characters before it and about
\* CONTEXT_AFTER after it
WindowTexts ==
    {Pad(a) \o Phrases[p] \o Pad(b) :
        p \in 1..Len(Phrases),
        a \in (CONTEXT_BEFORE - MaxSlack)..(CONTEXT_BEFORE + MaxSlack),
        b \in (CONTEXT_AFTER - MaxSlack)..(CONTEXT_AFTER + MaxSlack)}

\* a phrase after a run of U+0130, whose lower-case form is two characters
DottedTexts ==
    {Repeat(304, n) \o Phrases[p] : n \in {1, CONTEXT_BEFORE + MaxSlack}, p \in 1..2}

\* the phrases the long texts start or end with: one ends with "..."
CapPhrases == {1, 8}

\* texts of about EXCERPT_CAP characters, the phrase first or last
CapTexts ==
    UNION {{Phrases[p] \o Pad(n - Len(Phrases[p])), Pad(n - Len(Phrases[p])) \o Phrases[p]} :
            p \in CapPhrases,
            n \in (EXCERPT_CAP - MaxSlack)..(EXCERPT_CAP + MaxSlack)}

\* the arguments of the analysis harness
AnalyzeTexts == PhraseTexts \cup WindowTexts \cup DottedTexts \cup CapTexts

\* the questions of at most MaxParts parts, in every order
Questions ==
    {join(<<32>>, [i \in 1..Len(idx) |-> QuestionParts[idx[i]]]) :
        idx \in UNION {[1..n -> 1..Len(QuestionParts)] : n \in 0..MaxParts}}

\* the documents of the chat harness: risks, benefits and unclear terms
\* together; no finding at all; one high-severity risk
ChatTexts == {Compose(<<2, 6>>), Compose(<<9>>), Compose(<<1>>)}

\* two non-whitespace characters that strip() leaves MIN_TEXT_LENGTH apart
SparseText == <<120>> \o Repeat(32, MIN_TEXT_LENGTH - 2) \o <<120>>

\* a text of n characters that neither starts nor ends with whitespace
Body(n) == Phrases[1] \o Repeat(120, n - Len(Phrases[1]))

\* the uploads of the system: one character short of MIN_TEXT_LENGTH and
\* wrapped in a space each side; exactly MIN_TEXT_LENGTH; the sparse text
SystemTexts ==
    {<<32>> \o Body(MIN_TEXT_LENGTH - 1) \o <<32>>,
     Body(MIN_TEXT_LENGTH),
     SparseText}

\* the questions of the system's chat requests
SystemQuestions == {QuestionParts[1], QuestionParts[4]}

DocIds == 1..MaxDocs
Requests == 1..MaxRequests
NoTask == 0
UploadTask == MaxRequests + 1

(***************************************************************************)
(* The routes (main.py:262-392) over the two stores.                       *)
(***************************************************************************)
\* Both handlers are `async def` coroutines (main.py:263, 327) run by one
\* event loop (uvicorn.run, main.py:437).  analyze_document awaits only
\* file.read() (main.py:283), before it touches a store; chat_with_document
\* awaits nothing.  A coroutine that has started its store section therefore
\* keeps the loop until it returns or raises.

\* the handlers as plain `def` functions, which FastAPI runs on worker threads
may_run_threaded(task) == TRUE

\* main.py:263, 327, 437
may_run(task) == running \in {NoTask, task}

\* f with key k bound to v (a dict assignment d[k] = v)
put(f, k, v) == [x \in DOMAIN f \cup {k} |-> IF x = k THEN v ELSE f[x]]

\* main.py:241  str(uuid.uuid4()): an identifier no stored document has.
fresh_id == Cardinality(DOMAIN documents_storage) + 1

\* the length test without strip()
too_short_unstripped(txt) == Len(txt) < MIN_TEXT_LENGTH

\* main.py:307
too_short(txt) == Len(strip(txt)) < MIN_TEXT_LENGTH

\* main.py:314  AIAnalyzer.analyze_document(text, file.filename): apart from
\* the fresh document_id the call is a pure function of its arguments, so its
\* results on the system's uploads are tabulated once.
engine_results ==
    [txt \in SystemTexts |-> AIAnalyzer_analyze_document(txt, Filename, 0)]

\* POST /api/analyze, main.py:298-324, from the extracted text on.
analyze_document(txt) ==
    /\ may_run(UploadTask)
    /\ IF too_short(txt)
       THEN /\ response' = [text |-> txt, status_code |-> 400, document_id |-> 0]
            /\ UNCHANGED <<documents_storage, engine_input>>
       ELSE /\ fresh_id \in DocIds
            /\ LET result == [engine_results[txt] EXCEPT !.document_id = fresh_id]
               IN  /\ documents_storage' = put(documents_storage, result.document_id, result)
                   /\ engine_input' = put(engine_input, result.document_id, txt)
                   /\ response' = [text |-> txt, status_code |-> 200,
                                   document_id |-> result.document_id]
    /\ UNCHANGED <<chat_history, requests, running, stage, text, analysis, question, answer>>

\* no response yet
no_response == [text |-> <<>>, status_code |-> 0, document_id |-> 0]

\* the harness's analysis before the call
no_analysis ==
    [document_id |-> 0, filename |-> <<>>, text_content |-> <<>>, risks |-> <<>>,
     benefits |-> <<>>, unclear_terms |-> <<>>, overall_rating |-> <<>>, summary |-> <<>>]

idle_request ==
    [pc |-> "idle", document_id |-> 0, question |-> <<>>, answer |-> <<>>, status_code |-> 0]

\* main.py:386-390 (timestamp left out)
exchange(q, a) == [question |-> q, answer |-> a]

\* chat_with_document with the lazy creation moved before the lookup
chat_begin_eager(r, id, q) ==
    /\ requests[r].pc = "idle"
    /\ \A earlier \in 1..(r - 1) : requests[earlier].pc # "idle"
    /\ may_run(r)
    /\ IF id \notin DOMAIN documents_storage
       THEN /\ requests' = [requests EXCEPT ![r] =
                    [pc |-> "done", document_id |-> id, question |-> q,
                     answer |-> <<>>, status_code |-> 404]]
            /\ chat_history' = IF id \in DOMAIN chat_history THEN chat_history
                               ELSE put(chat_history, id, <<>>)
            /\ UNCHANGED running
       ELSE /\ requests' = [requests EXCEPT ![r] =
                    [pc |-> "check", document_id |-> id, question |-> q,
                     answer |-> respond(documents_storage[id], q), status_code |-> 0]]
            /\ running' = r
            /\ UNCHANGED chat_history
    /\ UNCHANGED <<documents_storage, response, engine_input, stage, text, analysis, question, answer>>

\* POST /api/chat, main.py:330-380: the lookup (404 when the document is
\* unknown) and the answer.  Requests are numbered in the order their
\* handlers start.
chat_begin(r, id, q) ==
    /\ requests[r].pc = "idle"
    /\ \A earlier \in 1..(r - 1) : requests[earlier].pc # "idle"
    /\ may_run(r)
    /\ IF id \notin DOMAIN documents_storage
       THEN /\ requests' = [requests EXCEPT ![r] =
                    [pc |-> "done", document_id |-> id, question |-> q,
                     answer |-> <<>>, status_code |-> 404]]
            /\ UNCHANGED <<running, chat_history>>
       ELSE /\ requests' = [requests EXCEPT ![r] =
                    [pc |-> "check", document_id |-> id, question |-> q,
                     answer |-> respond(documents_storage[id], q), status_code |-> 0]]
            /\ running' = r
            /\ UNCHANGED chat_history
    /\ UNCHANGED <<documents_storage, response, engine_input, stage, text, analysis, question, answer>>

\* main.py:383  if message.document_id not in chat_history
chat_check(r) ==
    /\ requests[r].pc = "check"
    /\ may_run(r)
    /\ requests' = [requests EXCEPT ![r].pc =
            IF requests[r].document_id \notin DOMAIN chat_history THEN "create" ELSE "append"]
    /\ UNCHANGED <<documents_storage, chat_history, running, response, engine_input,
                   stage, text, analysis, question, answer>>

\* main.py:384  chat_history[message.document_id] = []
chat_create(r) ==
    /\ requests[r].pc = "create"
    /\ may_run(r)
    /\ chat_history' = put(chat_history, requests[r].document_id, <<>>)
    /\ requests' = [requests EXCEPT ![r].pc = "append"]
    /\ UNCHANGED <<documents_storage, running, response, engine_input,
                   stage, text, analysis, question, answer>>

\* list.append at the front instead of the end
appended_first(history, id, item) ==
    [history EXCEPT ![id] = <<item>> \o @]

\* main.py:386  chat_history[message.document_id].append({...})
appended(history, id, item) ==
    [history EXCEPT ![id] = Append(@, item)]

\* main.py:386-392: the append and the response.
chat_append(r) ==
    /\ requests[r].pc = "append"
    /\ may_run(r)
    /\ chat_history' = appended(chat_history, requests[r].document_id,
                                exchange(requests[r].question, requests[r].answer))
    /\ requests' = [requests EXCEPT ![r].pc = "done", ![r].status_code = 200]
    /\ running' = NoTask
    /\ UNCHANGED <<documents_storage, response, engine_input, stage, text, analysis, question, answer>>

Init ==
    /\ stage = "system"
    /\ documents_storage = <<>>
    /\ chat_history = <<>>
    /\ requests = [r \in Requests |-> idle_request]
    /\ running = NoTask
    /\ response = no_response
    /\ engine_input = <<>>
    /\ text = <<>>
    /\ analysis = no_analysis
    /\ question = <<>>
    /\ answer = <<>>

Next ==
    \/ \E txt \in SystemTexts : analyze_document(txt)
    \/ \E r \in Requests, id \in DocIds, q \in SystemQuestions : chat_begin(r, id, q)
    \/ \E r \in Requests : chat_check(r)
    \/ \E r \in Requests : chat_create(r)
    \/ \E r \in Requests : chat_append(r)

Spec == Init /\ [][Next]_vars

(***************************************************************************)
(* The analysis engine as a pure function: its argument is drawn from      *)
(* AnalyzeTexts and the call is one step.                                  *)
(***************************************************************************)
InitAnalyze ==
    /\ stage = "input"
    /\ documents_storage = <<>>
    /\ chat_history = <<>>
    /\ requests = [r \in Requests |-> idle_request]
    /\ running = NoTask
    /\ response = no_response
    /\ engine_input = <<>>
    /\ text \in AnalyzeTexts
    /\ analysis = no_analysis
    /\ question = <<>>
    /\ answer = <<>>

\* the call AIAnalyzer.analyze_document(text, filename), main.py:314
call_analyze ==
    /\ stage = "input"
    /\ stage' = "analysed"
    /\ analysis' = AIAnalyzer_analyze_document(text, Filename, 1)
    /\ UNCHANGED <<documents_storage, chat_history, requests, running, response,
                   engine_input, text, question, answer>>

NextAnalyze == call_analyze

SpecAnalyze == InitAnalyze /\ [][NextAnalyze]_vars

(***************************************************************************)
(* The chat responder as a pure function of an analysis and a question.    *)
(***************************************************************************)
InitChat ==
    /\ stage = "input"
    /\ documents_storage = <<>>
    /\ chat_history = <<>>
    /\ requests = [r \in Requests |-> idle_request]
    /\ running = NoTask
    /\ response = no_response
    /\ engine_input = <<>>
    /\ text \in ChatTexts
    /\ analysis = no_analysis
    /\ question \in Questions
    /\ answer = <<>>

\* the answer computed for the analysed document, main.py:333-380
call_respond ==
    /\ stage = "analysed"
    /\ stage' = "answered"
    /\ answer' = respond(analysis, question)
    /\ UNCHANGED <<documents_storage, chat_history, requests, running, response,
                   engine_input, text, analysis, question>>

NextChat == call_analyze \/ call_respond

SpecChat == InitChat /\ [][NextChat]_vars

(***************************************************************************)
(* Properties.                                                             *)
(***************************************************************************)
startswith(s, prefix) ==
    Len(prefix) <= Len(s) /\ SubSeq(s, 1, Len(prefix)) = prefix

endswith(s, suffix) ==
    Len(suffix) <= Len(s) /\ SubSeq(s, Len(s) - Len(suffix) + 1, Len(s)) = suffix

\* the contexts of an analysis, each with the trigger recorded beside it
findings_of(a) ==
    {<<a.risks[i].keyword, a.risks[i].context>> : i \in 1..Len(a.risks)}
    \cup {<<a.benefits[i].keyword, a.benefits[i].context>> : i \in 1..Len(a.benefits)}
    \cup {<<a.unclear_terms[i].phrase, a.unclear_terms[i].context>> :
            i \in 1..Len(a.unclear_terms)}

\* C1: every finding's context has at most 300 characters and contains the
\* finding's recorded trigger as a substring.  (The statement of the claim;
\* the code slices the context out of the original-case text at an offset
\* found in the lower-cased copy, so it fails.)
C1_ContextContainsTrigger ==
    stage = "analysed" =>
        \A f \in findings_of(analysis) :
            /\ Len(f[2]) <= CONTEXT_BEFORE + CONTEXT_AFTER
            /\ contains(f[1], f[2])

\* the number of characters of s that are not whitespace
non_whitespace(s) == Cardinality({i \in 1..Len(s) : ~isspace(s[i])})

\* C2, as stated: an upload with fewer than 50 non-whitespace characters is
\* rejected, and every stored record was built from text with at least 50
\* non-whitespace characters.
C2_NonWhitespaceFloor ==
    /\ response.status_code # 0 /\ non_whitespace(response.text) < MIN_TEXT_LENGTH
            => response.status_code = 400
    /\ \A id \in DOMAIN documents_storage :
            non_whitespace(engine_input[id]) >= MIN_TEXT_LENGTH

\* the state part of C2 as amended
C2_FloorState ==
    /\ DOMAIN engine_input = DOMAIN documents_storage
    /\ \A id \in DOMAIN documents_storage :
            Len(strip(engine_input[id])) >= MIN_TEXT_LENGTH
    /\ response.status_code # 0 =>
            /\ response.status_code = 400 <=> Len(strip(response.text)) < MIN_TEXT_LENGTH
            /\ response.status_code = 400 => response.document_id = 0
            /\ response.status_code # 400 =>
                    /\ response.status_code = 200
                    /\ response.document_id \in DOMAIN documents_storage
                    /\ engine_input[response.document_id] = response.text

\* the step part of C2 as amended: a rejection adds no record and does not
\* reach the engine
C2_FloorStep ==
    response' # response /\ response'.status_code = 400
        => UNCHANGED <<documents_storage, engine_input>>

\* C2 (amended): an upload whose text has fewer than 50 characters once its
\* leading and trailing whitespace is stripped is rejected with status 400
\* before the engine is called and adds no record; every stored record was
\* built from text whose stripped length is at least 50.
C2_StrippedFloor == []C2_FloorState /\ [][C2_FloorStep]_vars

\* C2 witness: a text of at least 50 characters, short once stripped, was
\* rejected while a document is stored
C2_Witness ==
    /\ response.status_code = 400
    /\ Len(response.text) >= MIN_TEXT_LENGTH
    /\ documents_storage # <<>>

\* C3, as stated: the excerpt has at most 2000 + 3 characters, it ends with
\* the marker "..." iff the text is longer than 2000 characters, and it
\* equals the text when nothing was cut.
C3_MarkerIffTruncated ==
    stage = "analysed" =>
        /\ Len(analysis.text_content) <= EXCERPT_CAP + Len(truncation_marker)
        /\ endswith(analysis.text_content, truncation_marker) <=> Len(text) > EXCERPT_CAP
        /\ Len(text) <= EXCERPT_CAP => analysis.text_content = text

\* C3 (amended): the excerpt has at most 2000 + 3 characters; when the text
\* is longer than 2000 characters the excerpt is its first 2000 characters
\* followed by the marker "..."; otherwise the excerpt equals the text (so
\* an uncut excerpt ends with "..." exactly when the text itself does).
C3_Excerpt ==
    stage = "analysed" =>
        /\ Len(analysis.text_content) <= EXCERPT_CAP + Len(truncation_marker)
        /\ Len(text) > EXCERPT_CAP =>
                /\ Len(analysis.text_content) = EXCERPT_CAP + Len(truncation_marker)
                /\ \A i \in 1..EXCERPT_CAP : analysis.text_content[i] = text[i]
                /\ endswith(analysis.text_content, truncation_marker)
        /\ Len(text) <= EXCERPT_CAP => analysis.text_content = text

\* C3 witness: a text one character over the cap was cut
C3_Witness ==
    /\ stage = "analysed"
    /\ Len(text) = EXCERPT_CAP + 1
    /\ Len(analysis.text_content) = EXCERPT_CAP + Len(truncation_marker)

\* the keywords of a subtype table, as a set
keywords_of(patterns) ==
    UNION {{patterns[n].keywords[k] : k \in 1..Len(patterns[n].keywords)} :
            n \in 1..Len(patterns)}

\* C6: a text whose lower-cased form contains a risk keyword that contains
\* "штраф" or "полная ответственность" is rated "рискован", whatever else
\* it contains.
C6_SevereKeywordRisky ==
    stage = "analysed" =>
        LET text_lower == lower(text)
        IN  (\E kw \in keywords_of(risk_patterns) :
                /\ any_in(severe_fragments, kw)
                /\ contains(kw, text_lower))
            => analysis.overall_rating = rating_risky

\* C6 witness: "штраф" occurs in a text that also has a risk of another
\* subtype, a benefit and an unclear term, and the rating is "рискован"
C6_Witness ==
    /\ stage = "analysed"
    /\ contains(risk_patterns[1].keywords[1], lower(text))
    /\ Len(analysis.risks) > 1
    /\ Len(analysis.benefits) > 0
    /\ Len(analysis.unclear_terms) > 0
    /\ analysis.overall_rating = rating_risky

\* C7: the rating is "рискован" if some risk has high severity, otherwise
\* "требует внимания" if there is any risk, otherwise "безопасен".
C7_RatingRule ==
    stage = "analysed" =>
        analysis.overall_rating =
            IF \E i \in 1..Len(analysis.risks) : analysis.risks[i].severity = severity_high
            THEN rating_risky
            ELSE IF Len(analysis.risks) > 0 THEN rating_attention
            ELSE rating_safe

\* C7 witness: more than 3 risks, none of high severity, rated "требует
\* внимания"
C7_Witness ==
    /\ stage = "analysed"
    /\ Len(analysis.risks) > MANY_RISKS
    /\ \A i \in 1..Len(analysis.risks) : analysis.risks[i].severity = severity_medium
    /\ analysis.overall_rating = rating_attention

\* the rows of a subtype table of which some keyword occurs in text_lower
rows_hit(patterns, text_lower) ==
    {n \in 1..Len(patterns) :
        \E k \in 1..Len(patterns[n].keywords) : contains(patterns[n].keywords[k], text_lower)}

\* found lists one finding per row hit, in table order, each with the first
\* keyword of its row, in declared order, that occurs in text_lower
one_per_subtype(found, patterns, text_lower) ==
    LET hit == rows_hit(patterns, text_lower)
    IN  /\ Len(found) = Cardinality(hit)
        /\ \A i \in 1..Len(found) :
              \E n \in hit :
                /\ Cardinality({m \in hit : m < n}) = i - 1
                /\ found[i].type = patterns[n].type
                /\ \E k \in 1..Len(patterns[n].keywords) :
                      /\ found[i].keyword = patterns[n].keywords[k]
                      /\ contains(patterns[n].keywords[k], text_lower)
                      /\ \A j \in 1..(k - 1) : ~contains(patterns[n].keywords[j], text_lower)

\* C8: the risk list and the benefit list hold one finding per subtype of
\* which a keyword occurs in the lower-cased text and none for the others,
\* in table order, each with the first keyword in declared order that occurs.
C8_OnePerSubtype ==
    stage = "analysed" =>
        LET text_lower == lower(text)
        IN  /\ one_per_subtype(analysis.risks, risk_patterns, text_lower)
            /\ one_per_subtype(analysis.benefits, benefit_patterns, text_lower)

\* C8 witness: "пеня" occurs in the text before "штраф", which is declared
\* first, and the one finding of the subtype has the trigger "штраф"
C8_Witness ==
    /\ stage = "analysed"
    /\ LET text_lower == lower(text)
           fine == risk_patterns[1].keywords[1]
           penalty == risk_patterns[1].keywords[2]
       IN  /\ contains(fine, text_lower)
           /\ contains(penalty, text_lower)
           /\ find(text_lower, penalty) < find(text_lower, fine)
           /\ analysis.risks[1].keyword = fine
           /\ \A i \in 2..Len(analysis.risks) : analysis.risks[i].type # risk_patterns[1].type

\* the shapes of the five families' responses
is_risk_answer(a) == a = no_risks_answer \/ startswith(a, risks_header)
is_benefit_answer(a) == a = no_benefits_answer \/ startswith(a, benefits_header)
is_unclear_answer(a) == a = no_unclear_answer \/ startswith(a, unclear_header)
is_decision_answer(a) == startswith(a, decision_part0)
is_fallback_answer(a) == startswith(a, fallback_part0)

\* C9: the answer is the response of the first family, in the order risk,
\* benefit, ambiguity, decision, of which a trigger word occurs in the
\* lower-cased question, and of no other family; it is the fallback
\* response iff no family's trigger word occurs.
C9_IntentPriority ==
    stage = "answered" =>
        LET question_lower == lower(question)
            risk == any_in(risk_words, question_lower)
            benefit == any_in(benefit_words, question_lower)
            unclear == any_in(unclear_words, question_lower)
            decision == any_in(decision_words, question_lower)
        IN  /\ is_risk_answer(answer) <=> risk
            /\ is_benefit_answer(answer) <=> ~risk /\ benefit
            /\ is_unclear_answer(answer) <=> ~risk /\ ~benefit /\ unclear
            /\ is_decision_answer(answer) <=> ~risk /\ ~benefit /\ ~unclear /\ decision
            /\ is_fallback_answer(answer) <=> ~risk /\ ~benefit /\ ~unclear /\ ~decision

\* C9 witness: the question has a risk word after a benefit word, the
\* document has risks and benefits, and the answer lists the risks
C9_Witness ==
    /\ stage = "answered"
    /\ LET question_lower == lower(question)
       IN  /\ any_in(risk_words, question_lower)
           /\ any_in(benefit_words, question_lower)
           /\ find(question_lower, benefit_words[1]) < find(question_lower, risk_words[1])
    /\ Len(analysis.risks) > 0
    /\ Len(analysis.benefits) > 0
    /\ startswith(answer, risks_header)

\* the step part of C4: the request of a handler that starts with an id no
\* stored document has ends at once with 404, and both stores stay as they are
C4_NotFoundStep ==
    \A r \in Requests :
        /\ requests[r].pc = "idle"
        /\ requests'[r].pc # "idle"
        /\ requests'[r].document_id \notin DOMAIN documents_storage
        => /\ requests'[r].pc = "done"
           /\ requests'[r].status_code = 404
           /\ chat_history' = chat_history
           /\ documents_storage' = documents_storage

\* C4: a chat request naming an id that is not in documents_storage fails
\* with 404 and changes neither chat_history (its keys included) nor
\* documents_storage; no id without a document ever has a history.
C4_UnknownDocument ==
    /\ [](DOMAIN chat_history \subseteq DOMAIN documents_storage)
    /\ [][C4_NotFoundStep]_vars

\* C4 witness: a request got 404 while another document has an exchange
C4_Witness ==
    /\ \E r \in Requests : requests[r].status_code = 404
    /\ \E d \in DOMAIN chat_history : Len(chat_history[d]) > 0

\* the step part of C5
C5_AppendStep ==
    /\ DOMAIN chat_history \subseteq DOMAIN chat_history'
    /\ \A d \in DOMAIN chat_history :
          /\ Len(chat_history'[d]) \in {Len(chat_history[d]), Len(chat_history[d]) + 1}
          /\ SubSeq(chat_history'[d], 1, Len(chat_history[d])) = chat_history[d]
    /\ \A d \in DOMAIN chat_history' \ DOMAIN chat_history :
          /\ chat_history'[d] = <<>>
          /\ \E r \in Requests : requests[r].pc = "create" /\ requests[r].document_id = d
    /\ \A r \in Requests :
          requests[r].pc # "done" /\ requests'[r].pc = "done" /\ requests'[r].status_code = 200
          => LET d == requests'[r].document_id
             IN  /\ d \in DOMAIN chat_history
                 /\ chat_history' =
                        [chat_history EXCEPT ![d] =
                            Append(@, exchange(requests'[r].question, requests'[r].answer))]
    /\ (\A r \in Requests : requests'[r].pc = "done" => requests[r].pc = "done")
          => \A d \in DOMAIN chat_history : chat_history'[d] = chat_history[d]

\* the state part of C5: a sequence is empty only inside the handler run
\* that created it, just before its first exchange is appended
C5_LazyState ==
    \A d \in DOMAIN chat_history :
        chat_history[d] = <<>> =>
            \E r \in Requests :
                /\ running = r
                /\ requests[r].pc = "append"
                /\ requests[r].document_id = d

\* C5: over any sequence of analyze and chat operations a document's chat
\* history only grows at its end: a successful chat request appends exactly
\* its own exchange to its own document's sequence, earlier exchanges keep
\* their place and content, other documents' sequences do not change, and a
\* sequence comes into existence in the handler of the document's first
\* question.
C5_AppendOnly == []C5_LazyState /\ [][C5_AppendStep]_vars

\* C5 witness: a document has two exchanges with different questions
C5_Witness ==
    \E d \in DOMAIN chat_history :
        /\ Len(chat_history[d]) = 2
        /\ chat_history[d][1].question # chat_history[d][2].question

\* the requests that completed with an answer for document d
completed(d) ==
    {r \in Requests :
        /\ requests[r].pc = "done"
        /\ requests[r].status_code = 200
        /\ requests[r].document_id = d}

\* C10: whatever the order in which chat requests for one document run,
\* each completed request's exchange is in that document's history: the
\* history has exactly as many exchanges as requests completed, and each
\* completed request's exchange is one of them.
C10_NoLostAppend ==
    \A d \in DocIds :
        IF d \in DOMAIN chat_history
        THEN /\ Len(chat_history[d]) = Cardinality(completed(d))
             /\ \A r \in completed(d) :
                    \E i \in 1..Len(chat_history[d]) :
                        chat_history[d][i] = exchange(requests[r].question, requests[r].answer)
        ELSE completed(d) = {}

\* C10 witness: two requests, both for a document with no history when the
\* first of them started, have completed and the history holds two exchanges
C10_Witness ==
    \E d \in DOMAIN chat_history :
        /\ Cardinality(completed(d)) = 2
        /\ Len(chat_history[d]) = 2

=============================================================================
